---------------------------- MODULE Spec2Model ----------------------------
(***************************************************************************)
(* URL shortener: the data path of app/services/url_service.py over the   *)
(* Cassandra tables (app/db/cassandra.py) and the Redis cache             *)
(* (app/db/redis.py).                                                      *)
(*                                                                         *)
(* Requests run concurrently (FastAPI runs the sync endpoints in a thread  *)
(* pool); every Cassandra or Redis round trip of a handler is one step of  *)
(* the model, and the steps of different requests interleave freely.       *)
(* Time is in seconds.                                                     *)
(***************************************************************************)
EXTENDS Integers, FiniteSets, Sequences, TLC

(***************************************************************************)
(* Bounds of the model.                                                    *)
(***************************************************************************)
\* requests that arrive in one behaviour of Spec and of SpecServe
MaxCalls == 3
\* requests that arrive in one behaviour of SpecSeq
SeqCalls == 2
\* clock advances in one behaviour
MaxTicks == 2

\* the request handlers running at once (thread-pool workers)
Procs == {1, 2}
\* the long URLs clients submit
URLs == {"ua", "ub"}
\* the amounts by which the clock advances: under an hour, and almost a day
TimeSteps == {3000, 84000}
\* ShortenRequest.ttl_days values clients submit (schema: 1..3650)
TTLDays == {1}

(***************************************************************************)
(* Program constants.                                                      *)
(***************************************************************************)
URL_TTL == 3600
DEDUP_TTL == 86400
\* timedelta(days=1) in seconds
DaySeconds == 86400
\* the values secrets.token_bytes(2) takes in the model
RandomValues == {0, 1}

(***************************************************************************)
(* Short codes.  A code is the base64url text of 6 bytes; the model numbers *)
(* the texts: code 2*h + r is the encoding of the 4 hash bytes h followed  *)
(* by the 2 random bytes r.  A custom alias is any text of 3 to 30         *)
(* characters, an 8-character one included.                                *)
(***************************************************************************)
Codes == 0 .. 2
Aliases == {2}
NoCode == -1
NoUrl == "none"
NoAlias == -1

\* hashlib.sha256(url.encode()).hexdigest(): distinct digests for the
\* URLs of the model
get_url_hash(url) == IF url = "ua" THEN "sha_a" ELSE "sha_b"
Hashes == {get_url_hash(u) : u \in URLs}

\* hashlib.sha256(url.encode()).digest()[:4]: a 32-bit prefix, which two
\* different URLs can share; "ua" and "ub" do
hash_bytes(url) == 0

\* base64.urlsafe_b64encode(combined).decode()[:8]
b64(h, r) == 2 * h + r

\* URLService.generate_short_code, with the random bytes r made explicit
generate_short_code(url, r) == b64(hash_bytes(url), r)

\* base64.urlsafe_b64encode(secrets.token_bytes(6)).decode()[:8]: any
\* 6-byte text
FallbackCodes == Codes

VARIABLES
    urls,        \* Cassandra table urls: short_code -> [long_url, expires_at]
    url_dedup,   \* Cassandra table url_dedup: url_hash -> short_code
    url_clicks,  \* Cassandra counter table url_clicks: short_code -> click_count
    cacheUrl,    \* Redis keys url:<short_code> -> [val, exp]
    cacheDedup,  \* Redis keys dedup:<url_hash> -> [val, exp]
    cacheUp,     \* whether Redis answers (client set and no RedisError)
    now,         \* the clock
    pc,          \* where each handler is
    req,         \* the request each handler serves
    loc,         \* the handler's local variables
    inflight,    \* increment_clicks statements dispatched by execute_async
    lost,        \* increment_clicks statements that failed (errback logged)
    served,      \* by code: the resolves that have returned a long URL (history)
    raced,       \* the codes of which two resolves have overlapped (history)
    lastRet,     \* by URL: the code the last finished alias-less create returned (history)
    minted,      \* by code: the URLs a finished create returned the code for (history)
    aliased,     \* the custom aliases a finished create succeeded with (history)
    written,     \* the codes a create has written the row and the dedup row of (history)
    snap,        \* what the history said when the handler's call was issued
    solo,        \* whether the handler's call has overlapped no other call
    out,         \* the last finished call: request, response, snap and solo
    left,        \* what the behaviour may still do: calls, ticks, and its workers
    requests,    \* InMemoryRateLimiter._requests: key -> list of timestamps
    lock,        \* InMemoryRateLimiter._lock: its holder, or Nobody
    cleanup,     \* the cleanup loops started, where the loop is, what it logged
    ratelimit,   \* Redis sorted sets ratelimit:<key>: key -> [members, exp]
    lim,         \* where each is_allowed call is, and its locals
    clock,       \* the limiters' clock (time.time()), in ticks
    rule,        \* the RateLimitConfig of each key
    admitted,    \* by key and timestamp: the calls a limiter admitted on its count (history)
    waved,       \* whether an is_allowed call has failed open (history)
    verdict,     \* the last finished is_allowed call and what it returned
    gate,        \* RateLimitMiddleware.dispatch: where the request it holds is
    boot,        \* main.py: how far the start is, cache.client, the limiter built
    drawn        \* generate_short_code: the bytes drawn and the text made of them

vars == <<urls, url_dedup, url_clicks, cacheUrl, cacheDedup, cacheUp, now,
          pc, req, loc, inflight, lost, served, raced, lastRet, minted, aliased,
          written,
          snap, solo, out, left,
          requests, lock, cleanup, ratelimit, lim, clock, rule, admitted, waved,
          verdict, gate, boot, drawn>>

store == <<urls, url_dedup, url_clicks>>
cachev == <<cacheUrl, cacheDedup>>
env == <<cacheUp, now>>
clickv == <<inflight, lost, served, raced>>
hist == <<lastRet, minted, aliased, written>>
callv == <<req, snap, solo, left>>
\* the rate limiters
limv == <<requests, lock, cleanup, ratelimit, lim, clock, rule, admitted, waved,
          verdict, gate, boot, drawn>>
\* the service behind them, and the middleware in front of both
datav == <<store, cachev, now, pc, req, loc, clickv, hist, snap, solo, out, gate,
           boot, drawn>>

----------------------------------------------------------------------------
(* Tables and key spaces as functions on the keys present. *)

Put(f, k, v) == [x \in DOMAIN f \cup {k} |-> IF x = k THEN v ELSE f[x]]
Drop(f, k) == [x \in DOMAIN f \ {k} |-> f[x]]
Empty == [x \in {} |-> 0]

----------------------------------------------------------------------------
(* app/db/redis.py: every operation is a miss or a no-op when Redis does   *)
(* not answer.                                                             *)

Live(f, k) == k \in DOMAIN f /\ now < f[k].exp

\* RedisCache.get_url
cache_get_url(short_code) ==
    IF cacheUp /\ Live(cacheUrl, short_code) THEN cacheUrl[short_code].val ELSE NoUrl

\* a set_url that writes nothing
cache_set_url_skipped(short_code, long_url) == cacheUrl

\* RedisCache.set_url: the url: keys afterwards
cache_set_url(short_code, long_url) ==
    IF cacheUp
    THEN Put(cacheUrl, short_code, [val |-> long_url, exp |-> now + URL_TTL])
    ELSE cacheUrl

\* RedisCache.delete_url: the url: keys afterwards
cache_delete_url(short_code) ==
    IF cacheUp THEN Drop(cacheUrl, short_code) ELSE cacheUrl

\* RedisCache.get_dedup
cache_get_dedup(url_hash) ==
    IF cacheUp /\ Live(cacheDedup, url_hash) THEN cacheDedup[url_hash].val ELSE NoCode

\* RedisCache.set_dedup: the dedup: keys afterwards
cache_set_dedup(url_hash, short_code) ==
    IF cacheUp
    THEN Put(cacheDedup, url_hash, [val |-> short_code, exp |-> now + DEDUP_TTL])
    ELSE cacheDedup

----------------------------------------------------------------------------
(* app/db/cassandra.py: the prepared statements.  A CQL INSERT writes the  *)
(* row whether or not one with that key exists.                            *)

\* INSERT INTO urls (...) VALUES (?, ?, ?, ?, ?): the table afterwards
insert_url(short_code, long_url, expires_at) ==
    Put(urls, short_code, [long_url |-> long_url, expires_at |-> expires_at])

\* INSERT INTO url_dedup (...) VALUES (?, ?, ?): the table afterwards
insert_dedup(url_hash, short_code) == Put(url_dedup, url_hash, short_code)

\* SELECT long_url, expires_at FROM urls WHERE short_code = ?: is there a row
get_url(short_code) == short_code \in DOMAIN urls

\* SELECT short_code FROM url_dedup WHERE url_hash = ?
get_dedup(url_hash) ==
    IF url_hash \in DOMAIN url_dedup THEN url_dedup[url_hash] ELSE NoCode

\* an increment that writes 1 over the counter instead of adding to it
increment_clicks_overwrites(short_code) == Put(url_clicks, short_code, 1)

\* UPDATE url_clicks SET click_count = click_count + 1 WHERE short_code = ?
increment_clicks(short_code) ==
    Put(url_clicks, short_code,
        IF short_code \in DOMAIN url_clicks THEN url_clicks[short_code] + 1 ELSE 1)

\* a get_clicks that finds no row
get_clicks_no_row(short_code) == 0

\* SELECT click_count FROM url_clicks WHERE short_code = ?, read as
\* get_stats reads it: no row is 0
get_clicks(short_code) ==
    IF short_code \in DOMAIN url_clicks THEN url_clicks[short_code] ELSE 0

----------------------------------------------------------------------------
(* Requests, locals and responses. *)

NoReq == [op |-> "none", url |-> NoUrl, alias |-> NoAlias, code |-> NoCode, ttl |-> 0]
NoLoc == [short_code |-> NoCode, long_url |-> NoUrl, expires_at |-> 0]
NoRet == [status |-> 0, short_code |-> NoCode, long_url |-> NoUrl, clicks |-> 0,
          detail |-> ""]
\* what a call's issue records for the claims: for a create, the code the
\* last alias-less create of the URL returned, whether an earlier create
\* succeeded with the alias, whether a row has the alias as its code, and
\* the code the dedup cache or table maps the URL to; for a resolve, the
\* URLs the code was returned for and whether its row has expired; for
\* stats, the resolves that have returned the code's URL and how many of
\* their increments are not applied (in flight or failed)
NoSnap == [code |-> NoCode, second |-> FALSE, taken |-> FALSE, mapped |-> NoCode,
           urls |-> {}, expired |-> FALSE, served |-> 0, pending |-> 0]
NoOut == [req |-> NoReq, ret |-> NoRet, snap |-> NoSnap, solo |-> TRUE, hit |-> FALSE]

\* the detail of the HTTPException raised with a status
Detail(status) ==
    CASE status = 404 -> "URL not found"
      [] status = 410 -> "URL expired"
      [] status = 409 -> "This custom alias is already taken"
      [] status = 500 -> "Failed to generate unique short code"
      [] status = 400 -> "validation failed"
      [] status = 429 -> "Rate limit exceeded. Please try again later."
      [] OTHER -> ""

Response(status, short_code, long_url, n) ==
    [status |-> status, short_code |-> short_code, long_url |-> long_url,
     clicks |-> n, detail |-> Detail(status)]

Idle(p) == pc[p] = "idle"
Quiet(p) == \A q \in Procs \ {p} : Idle(q)

\* a request arrives and the pool's first free worker p takes it
Arrive(p) ==
    /\ Idle(p)
    /\ p <= left.workers
    /\ \A q \in Procs : q < p => ~Idle(q)
    /\ left.calls > 0
    /\ left' = [left EXCEPT !.calls = @ - 1]

\* the call of p goes on to its next round trip; it overlaps the calls in flight
Begin(p, r, s, label) ==
    /\ pc' = [pc EXCEPT ![p] = label]
    /\ req' = [req EXCEPT ![p] = r]
    /\ snap' = [snap EXCEPT ![p] = s]
    /\ solo' = [q \in Procs |-> IF q = p THEN Quiet(p) ELSE Idle(q)]
    /\ UNCHANGED out

\* the call of p is answered from the cache in its first round trip
Answer(p, r, s, resp) ==
    /\ solo' = [q \in Procs |-> Idle(q)]
    /\ out' = [req |-> r, ret |-> resp, snap |-> s, solo |-> Quiet(p), hit |-> TRUE]
    /\ UNCHANGED <<pc, req, snap>>

\* the call of p is rejected on its input, before any round trip
Reject(p, r, resp) ==
    /\ solo' = [q \in Procs |-> Idle(q)]
    /\ out' = [req |-> r, ret |-> resp, snap |-> NoSnap, solo |-> Quiet(p), hit |-> FALSE]
    /\ UNCHANGED <<pc, req, snap>>

\* handler p returns response resp
Return(p, resp) ==
    /\ pc' = [pc EXCEPT ![p] = "idle"]
    /\ req' = [req EXCEPT ![p] = NoReq]
    /\ loc' = [loc EXCEPT ![p] = NoLoc]
    /\ snap' = [snap EXCEPT ![p] = NoSnap]
    /\ solo' = [solo EXCEPT ![p] = TRUE]
    /\ out' = [req |-> req[p], ret |-> resp, snap |-> snap[p], solo |-> solo[p],
               hit |-> FALSE]

Goto(p, label) ==
    /\ pc' = [pc EXCEPT ![p] = label]
    /\ UNCHANGED <<req, snap, solo, out>>

----------------------------------------------------------------------------
(* Validation of the input: url_service.py lines 136-142 and 178-183, and  *)
(* app/core/security.py.  The model numbers the texts: the codes of Codes  *)
(* are well-formed texts, those of BadCodes and BadAliases are not.        *)

\* short codes of a wrong format: the empty text, 31 characters, a slash
BadCodes == {-2, -3, -4}
\* custom aliases the validator refuses: 2 characters, a reserved word, a
\* leading hyphen
BadAliases == {-5, -6, -7}
\* long URLs the validator refuses: a scheme other than http(s), a blocked
\* top-level domain, a blocked domain, an IP address
BadURLs == {"ftp://a.com/x", "http://a.tk/x", "http://evil.com/x", "http://10.0.0.1/x"}

\* the characters of the text numbered c
text(c) ==
    CASE c = -2 -> <<>>
      [] c = -3 -> [i \in 1 .. 31 |-> "a"]
      [] c = -4 -> <<"a", "/", "b">>
      [] c = -5 -> <<"a", "b">>
      [] c = -6 -> <<"a", "p", "i">>
      [] c = -7 -> <<"-", "a", "b">>
      [] OTHER -> <<"c", "-", "_", <<"0", "1", "2">>[c + 1]>>

\* the alphabet of base64.urlsafe_b64encode: the character of each sextet
B64 ==
    <<"A", "B", "C", "D", "E", "F", "G", "H", "I", "J", "K", "L", "M",
      "N", "O", "P", "Q", "R", "S", "T", "U", "V", "W", "X", "Y", "Z",
      "a", "b", "c", "d", "e", "f", "g", "h", "i", "j", "k", "l", "m",
      "n", "o", "p", "q", "r", "s", "t", "u", "v", "w", "x", "y", "z",
      "0", "1", "2", "3", "4", "5", "6", "7", "8", "9", "-", "_">>

\* str.isalnum() of a character: also true of the letters and digits
\* outside ASCII
Ascii == {B64[i] : i \in 1 .. 62}
isalnum(ch) == ch \in Ascii \cup {"e-acute"}

\* lines 137-142 and 179-183, of the text t of a short code
valid_text(t) ==
    /\ t # <<>>
    /\ Len(t) <= 30
    /\ \A i \in 1 .. Len(t) : isalnum(t[i]) \/ t[i] \in {"-", "_"}

\* lines 137-142 and 179-183: not empty, 30 characters at most, letters,
\* digits, hyphens and underscores only
valid_short_code(short_code) == valid_text(text(short_code))

\* SecurityValidator.RESERVED_CODES, of which the model has one
RESERVED_CODES == {<<"a", "p", "i">>}

\* SecurityValidator.validate_custom_alias
validate_custom_alias(alias) ==
    LET t == text(alias) IN
    /\ Len(t) >= 3
    /\ Len(t) <= 30
    /\ t[1] \in Ascii
    /\ \A i \in 2 .. Len(t) : t[i] \in Ascii \cup {"-", "_"}
    /\ t \notin RESERVED_CODES
    /\ \A i \in 1 .. Len(t) : t[i] \notin {"/", "\\", "%"}
    /\ \A i \in 1 .. Len(t) - 1 : ~(t[i] = "." /\ t[i + 1] = ".")

\* urlparse(url): the scheme and the domain of the long URLs of the model
parsed(url) ==
    CASE url = "ftp://a.com/x" -> [scheme |-> "ftp", domain |-> <<"a", "com">>]
      [] url = "http://a.tk/x" -> [scheme |-> "http", domain |-> <<"a", "tk">>]
      [] url = "http://evil.com/x" -> [scheme |-> "http", domain |-> <<"evil", "com">>]
      [] url = "http://10.0.0.1/x" -> [scheme |-> "http", domain |-> <<"10", "0", "0", "1">>]
      [] OTHER -> [scheme |-> "https", domain |-> <<url, "com">>]

BLOCKED_TLDS == {"tk", "ml", "ga", "cf", "gq"}
BLOCKED_DOMAINS == {<<"malware", "com">>, <<"phishing", "com">>, <<"evil", "com">>}
Octets == {"0", "1", "10"}

\* SecurityValidator.validate_url; the URLs of the model match none of
\* BLOCKED_PATTERNS and are shorter than 2048 characters
validate_url(url) ==
    LET domain == parsed(url).domain IN
    /\ parsed(url).scheme \in {"http", "https"}
    /\ domain[Len(domain)] \notin BLOCKED_TLDS
    /\ domain \notin BLOCKED_DOMAINS
    /\ ~(Len(domain) = 4 /\ \A i \in 1 .. 4 : domain[i] \in Octets)

----------------------------------------------------------------------------
(* app/middleware/rate_limit.py: the state of the two limiters.  Their     *)
(* clock is time.time(), a float: the model counts it in ticks of a        *)
(* fraction of a second, and two calls in the same tick read the same      *)
(* timestamp.                                                              *)

\* the largest RateLimitConfig.requests of the rules
MaxLimit == 2
\* RateLimitConfig.window in seconds: the four rules of LIMITS have the
\* same window, a minute, which the model scales to two seconds
Windows == {2}
\* is_allowed calls and advances of the limiters' clock in one behaviour
LimCalls == 3
LimTicks == 1

TicksPerSecond == 2
\* the amounts by which the limiters' clock advances, in ticks: half a
\* second, more than a window, and more than the hour the sweep keeps
SWEEP_AGE == 3600
LimSteps ==
    {1, SWEEP_AGE * TicksPerSecond + 1} \cup {w * TicksPerSecond + 1 : w \in Windows}

\* the keys f"{client_ip}:{limit_type}" of the requests
LimitKeys == {"ip:create", "ip:redirect"}
Rules == [requests : 1 .. MaxLimit, window : Windows]

\* RateLimitMiddleware._get_limit_config and line 209: the key of a request
\* of the client, by the operation it asks for
limit_key(op) ==
    CASE op = "create" -> "ip:create"
      [] op = "stats" -> "ip:stats"
      [] OTHER -> "ip:redirect"
\* the keys of the requests the middleware passes on to the service
GateKeys == {limit_key(op) : op \in {"create", "resolve", "stats"}}

\* the window of key k in ticks
WindowTicks(k) == rule[k].window * TicksPerSecond

Nobody == 0
NoCall == [pc |-> "idle", variant |-> "none", key |-> "none", now |-> 0,
           seen |-> 0, solo |-> TRUE]
NoVerdict == [variant |-> "none", key |-> "none", now |-> 0, seen |-> 0,
              solo |-> TRUE, failed |-> FALSE,
              allowed |-> FALSE, remaining |-> 0, reset |-> 0]
\* dispatch holds no request; calls is the number of calls left when the
\* request it holds came to where it is
NoGate == [pc |-> "idle", op |-> "none", calls |-> 0]

\* main.py is being imported: cache.client is None and no middleware is
\* built
NoBoot == [pc |-> "import", client |-> FALSE, limiter |-> "none"]

\* the application serves: lifespan has run cache.connect(), and the
\* middleware has the limiter main.py built it with
Started == [pc |-> "serving", client |-> cacheUp, limiter |-> "memory"]

\* the limiters as constructed (InMemoryRateLimiter.__init__, an empty
\* Redis), before any request
LimiterNew ==
    /\ requests = Empty
    /\ lock = Nobody
    /\ cleanup = [tasks |-> 0, pc |-> "none", now |-> 0, swept |-> FALSE,
                  logged |-> FALSE]
    /\ ratelimit = Empty
    /\ lim = [w \in Procs |-> NoCall]
    /\ clock = 0
    /\ admitted = [k \in LimitKeys \cup GateKeys |-> Empty]
    /\ waved = FALSE
    /\ verdict = NoVerdict
    /\ gate = NoGate

\* the limiters as constructed, in an application that serves
LimiterBuilt == LimiterNew /\ boot = Started

\* the limiters left aside: the specifications of the service behind them
\* start here and leave the limiters' state alone
LimiterAside ==
    /\ LimiterBuilt
    /\ rule = [k \in LimitKeys \cup GateKeys |-> [requests |-> 1, window |-> 2]]

\* no code has been generated
NoDraw == [by |-> "none", bytes |-> <<>>, text |-> <<>>]

\* the service as constructed: empty tables, an empty cache, no request
Built ==
    /\ urls = Empty
    /\ url_dedup = Empty
    /\ url_clicks = Empty
    /\ cacheUrl = Empty
    /\ cacheDedup = Empty
    /\ cacheUp \in BOOLEAN
    /\ now = 0
    /\ drawn = NoDraw
    /\ pc = [p \in Procs |-> "idle"]
    /\ req = [p \in Procs |-> NoReq]
    /\ loc = [p \in Procs |-> NoLoc]
    /\ inflight = [c \in Codes |-> 0]
    /\ lost = [c \in Codes |-> 0]
    /\ served = [c \in Codes |-> 0]
    /\ raced = {}
    /\ lastRet = [u \in URLs |-> NoCode]
    /\ minted = [c \in Codes |-> {}]
    /\ aliased = {}
    /\ written = {}
    /\ snap = [p \in Procs |-> NoSnap]
    /\ solo = [p \in Procs |-> TRUE]
    /\ out = NoOut

Init ==
    /\ Built
    /\ LimiterAside
    /\ left = [calls |-> MaxCalls, ticks |-> 0, workers |-> 2]

----------------------------------------------------------------------------
(* URLService.create_short_url *)

\* the history a create that returns response resp for request r leaves
Minted(r, resp) ==
    /\ lastRet' = IF resp.status = 200 /\ r.alias = NoAlias
                  THEN [lastRet EXCEPT ![r.url] = resp.short_code]
                  ELSE lastRet
    /\ minted' = IF resp.status = 200
                 THEN [minted EXCEPT ![resp.short_code] = @ \cup {r.url}]
                 ELSE minted
    /\ aliased' = IF resp.status = 200 /\ r.alias # NoAlias
                  THEN aliased \cup {r.alias} ELSE aliased
    /\ UNCHANGED written

CreateReturns(p, resp) == Return(p, resp) /\ Minted(req[p], resp)

\* create_short_url, were the Redis dedup cache not looked at
create_short_url_uncached(p, url, alias, ttl_days) ==
    /\ Arrive(p)
    /\ validate_url(url)
    /\ alias # NoAlias => validate_custom_alias(alias)
    /\ Begin(p, [op |-> "create", url |-> url, alias |-> alias, code |-> NoCode,
                 ttl |-> ttl_days], NoSnap, "get_dedup")
    /\ UNCHANGED <<store, cachev, env, loc, clickv, hist>>
    /\ UNCHANGED limv

\* lines 57-75: the request arrives, the URL is hashed and the Redis dedup
\* cache is read; a hit is returned
create_short_url(p, url, alias, ttl_days) ==
    LET cached_code == cache_get_dedup(get_url_hash(url))
        r == [op |-> "create", url |-> url, alias |-> alias, code |-> NoCode,
              ttl |-> ttl_days]
        s == [NoSnap EXCEPT
                 !.code = IF alias = NoAlias THEN lastRet[url] ELSE NoCode,
                 !.second = alias \in aliased,
                 !.taken = alias # NoAlias /\ get_url(alias),
                 !.mapped = IF alias = NoAlias THEN NoCode
                            ELSE IF cached_code # NoCode THEN cached_code
                            ELSE get_dedup(get_url_hash(url))]
    IN
    /\ Arrive(p)
    /\ IF ~validate_url(url) \/ (alias # NoAlias /\ ~validate_custom_alias(alias))
       THEN /\ Reject(p, r, Response(400, NoCode, NoUrl, 0))
            /\ UNCHANGED hist
       ELSE IF cached_code # NoCode
       THEN /\ Answer(p, r, s, Response(200, cached_code, url, 0))
            /\ Minted(r, Response(200, cached_code, url, 0))
       ELSE /\ Begin(p, r, s, "get_dedup")
            /\ UNCHANGED hist
    /\ UNCHANGED <<store, cachev, env, loc, clickv>>
    /\ UNCHANGED limv

\* create_get_dedup, were a custom alias taken before the dedup table is
\* looked at
create_get_dedup_alias_first(p) ==
    LET row == get_dedup(get_url_hash(req[p].url)) IN
    /\ pc[p] = "get_dedup"
    /\ IF row # NoCode /\ req[p].alias = NoAlias
       THEN /\ loc' = [loc EXCEPT ![p].short_code = row]
            /\ Goto(p, "repair")
       ELSE /\ \E r \in RandomValues :
                 loc' = [loc EXCEPT ![p].short_code =
                            IF req[p].alias # NoAlias THEN req[p].alias
                            ELSE generate_short_code(req[p].url, r)]
            /\ Goto(p, "check")
    /\ UNCHANGED <<store, cachev, env, clickv, hist, left>>
    /\ UNCHANGED limv

\* lines 77-90: the Cassandra dedup table is read; on a miss the code is
\* the custom alias or a generated one
create_get_dedup(p) ==
    LET row == get_dedup(get_url_hash(req[p].url)) IN
    /\ pc[p] = "get_dedup"
    /\ IF row # NoCode
       THEN /\ loc' = [loc EXCEPT ![p].short_code = row]
            /\ Goto(p, "repair")
       ELSE /\ \E r \in RandomValues :
                 loc' = [loc EXCEPT ![p].short_code =
                            IF req[p].alias # NoAlias THEN req[p].alias
                            ELSE generate_short_code(req[p].url, r)]
            /\ Goto(p, "check")
    /\ UNCHANGED <<store, cachev, env, clickv, hist, left>>
    /\ UNCHANGED limv

\* create_repair, were the dedup row returned without being cached
create_repair_uncached(p) ==
    /\ pc[p] = "repair"
    /\ CreateReturns(p, Response(200, loc[p].short_code, req[p].url, 0))
    /\ UNCHANGED <<store, cachev, env, clickv, left>>
    /\ UNCHANGED limv

\* lines 82-87: the dedup row is cached and returned
create_repair(p) ==
    /\ pc[p] = "repair"
    /\ cacheDedup' = cache_set_dedup(get_url_hash(req[p].url), loc[p].short_code)
    /\ CreateReturns(p, Response(200, loc[p].short_code, req[p].url, 0))
    /\ UNCHANGED <<store, cacheUrl, env, clickv, left>>
    /\ UNCHANGED limv

\* lines 104-105: created_at is read off the clock once the code is chosen
Expiry(ttl_days) == now + ttl_days * DaySeconds

\* an existence check that lets a taken alias through to the insert
create_check_alias_unchecked(p) ==
    /\ pc[p] = "check"
    /\ IF get_url(loc[p].short_code) /\ req[p].alias = NoAlias
       THEN /\ \E f \in FallbackCodes : loc' = [loc EXCEPT ![p].short_code = f]
            /\ Goto(p, "recheck")
       ELSE /\ loc' = [loc EXCEPT ![p].expires_at = Expiry(req[p].ttl)]
            /\ Goto(p, "insert_url")
    /\ UNCHANGED <<store, cachev, env, clickv, hist, left>>
    /\ UNCHANGED limv

\* lines 93-98: is the code taken?  An alias that is fails with 409; a
\* generated code is replaced by 6 random bytes
create_check(p) ==
    /\ pc[p] = "check"
    /\ IF get_url(loc[p].short_code)
       THEN IF req[p].alias # NoAlias
            THEN /\ CreateReturns(p, Response(409, NoCode, NoUrl, 0))
            ELSE /\ \E f \in FallbackCodes : loc' = [loc EXCEPT ![p].short_code = f]
                 /\ Goto(p, "recheck")
                 /\ UNCHANGED hist
       ELSE /\ loc' = [loc EXCEPT ![p].expires_at = Expiry(req[p].ttl)]
            /\ Goto(p, "insert_url")
            /\ UNCHANGED hist
    /\ UNCHANGED <<store, cachev, env, clickv, left>>
    /\ UNCHANGED limv

\* a second existence check that lets a taken code through to the insert
create_recheck_unchecked(p) ==
    /\ pc[p] = "recheck"
    /\ loc' = [loc EXCEPT ![p].expires_at = Expiry(req[p].ttl)]
    /\ Goto(p, "insert_url")
    /\ UNCHANGED <<store, cachev, env, clickv, hist, left>>
    /\ UNCHANGED limv

\* a second existence check that regenerates the code again when it is taken
create_recheck_again(p) ==
    /\ pc[p] = "recheck"
    /\ IF get_url(loc[p].short_code)
       THEN /\ \E f \in FallbackCodes : loc' = [loc EXCEPT ![p].short_code = f]
            /\ Goto(p, "recheck")
       ELSE /\ loc' = [loc EXCEPT ![p].expires_at = Expiry(req[p].ttl)]
            /\ Goto(p, "insert_url")
    /\ UNCHANGED <<store, cachev, env, clickv, hist, left>>
    /\ UNCHANGED limv

\* lines 99-101: the second and last existence check
create_recheck(p) ==
    /\ pc[p] = "recheck"
    /\ IF get_url(loc[p].short_code)
       THEN CreateReturns(p, Response(500, NoCode, NoUrl, 0))
       ELSE /\ loc' = [loc EXCEPT ![p].expires_at = Expiry(req[p].ttl)]
            /\ Goto(p, "insert_url")
            /\ UNCHANGED hist
    /\ UNCHANGED <<store, cachev, env, clickv, left>>
    /\ UNCHANGED limv

\* create_insert_url, were the dedup row written first
create_insert_url_deferred(p) ==
    /\ pc[p] = "insert_url"
    /\ url_dedup' = insert_dedup(get_url_hash(req[p].url), loc[p].short_code)
    /\ Goto(p, "insert_dedup")
    /\ UNCHANGED <<urls, url_clicks, cachev, env, loc, clickv, hist, left>>
    /\ UNCHANGED limv

\* lines 110-111
create_insert_url(p) ==
    /\ pc[p] = "insert_url"
    /\ urls' = insert_url(loc[p].short_code, req[p].url, loc[p].expires_at)
    /\ Goto(p, "insert_dedup")
    /\ UNCHANGED <<url_dedup, url_clicks, cachev, env, loc, clickv, hist, left>>
    /\ UNCHANGED limv

\* lines 112-113
create_insert_dedup(p) ==
    /\ pc[p] = "insert_dedup"
    /\ url_dedup' = insert_dedup(get_url_hash(req[p].url), loc[p].short_code)
    /\ written' = written \cup {loc[p].short_code}
    /\ Goto(p, "set_url")
    /\ UNCHANGED <<urls, url_clicks, cachev, env, loc, clickv, left>>
    /\ UNCHANGED <<lastRet, minted, aliased>>
    /\ UNCHANGED limv

\* line 116
create_set_url(p) ==
    /\ pc[p] = "set_url"
    /\ cacheUrl' = cache_set_url(loc[p].short_code, req[p].url)
    /\ Goto(p, "set_dedup")
    /\ UNCHANGED <<store, cacheDedup, env, loc, clickv, hist, left>>
    /\ UNCHANGED limv

\* create_set_dedup, were the RedisError of the write raised to the handler
create_set_dedup_raises(p) ==
    /\ pc[p] = "set_dedup"
    /\ cacheDedup' = cache_set_dedup(get_url_hash(req[p].url), loc[p].short_code)
    /\ CreateReturns(p, IF cacheUp THEN Response(200, loc[p].short_code, req[p].url, 0)
                        ELSE Response(500, NoCode, NoUrl, 0))
    /\ UNCHANGED <<store, cacheUrl, env, clickv, left>>
    /\ UNCHANGED limv

\* lines 117-123
create_set_dedup(p) ==
    /\ pc[p] = "set_dedup"
    /\ cacheDedup' = cache_set_dedup(get_url_hash(req[p].url), loc[p].short_code)
    /\ CreateReturns(p, Response(200, loc[p].short_code, req[p].url, 0))
    /\ UNCHANGED <<store, cacheUrl, env, clickv, left>>
    /\ UNCHANGED limv

----------------------------------------------------------------------------
(* URLService.generate_short_code and the fallback of create_short_url,    *)
(* on the bytes and the characters themselves.                             *)

\* the values a byte takes in the model: all bits clear, all bits set, and
\* one whose sextets reach "-" and the digits
ByteValues == {0, 251, 255}
\* hashlib.sha256(url.encode()).digest()[:4]
HashBytes == [1 .. 4 -> {0, 251}]
\* secrets.token_bytes(n)
token_bytes(n) == [1 .. n -> ByteValues]

\* base64.urlsafe_b64encode: three bytes make four characters, and the
\* last group is padded with "="
RECURSIVE urlsafe_b64encode(_)
urlsafe_b64encode(bs) ==
    IF bs = <<>> THEN <<>>
    ELSE LET b1 == bs[1]
             b2 == IF Len(bs) >= 2 THEN bs[2] ELSE 0
             b3 == IF Len(bs) >= 3 THEN bs[3] ELSE 0
             c1 == B64[(b1 \div 4) + 1]
             c2 == B64[(b1 % 4) * 16 + (b2 \div 16) + 1]
             c3 == IF Len(bs) >= 2 THEN B64[(b2 % 16) * 4 + (b3 \div 64) + 1] ELSE "="
             c4 == IF Len(bs) >= 3 THEN B64[(b3 % 64) + 1] ELSE "="
         IN  <<c1, c2, c3, c4>>
                 \o (IF Len(bs) > 3 THEN urlsafe_b64encode(SubSeq(bs, 4, Len(bs)))
                     ELSE <<>>)

\* .decode()[:8]
first8(t) == SubSeq(t, 1, IF Len(t) < 8 THEN Len(t) ELSE 8)

\* combined, were one random byte drawn
combined_short(hash, random) == hash \o SubSeq(random, 1, 1)

\* line 38: combined = hash_bytes + random_bytes
combined(hash, random) == hash \o random

\* lines 36-39: generate_short_code with the digest and the random bytes
\* it draws
generate_text(hash, random) ==
    /\ drawn' = [by |-> "primary", bytes |-> combined(hash, random),
                 text |-> first8(urlsafe_b64encode(combined(hash, random)))]
    /\ UNCHANGED <<store, cachev, env, pc, req, loc, clickv, hist, snap, solo, out,
                   left, gate, boot>>
    /\ UNCHANGED <<requests, lock, cleanup, ratelimit, lim, clock, rule, admitted,
                   waved, verdict>>

\* line 98: the fallback code of six random bytes
fallback_text(random) ==
    /\ drawn' = [by |-> "fallback", bytes |-> random,
                 text |-> first8(urlsafe_b64encode(random))]
    /\ UNCHANGED <<store, cachev, env, pc, req, loc, clickv, hist, snap, solo, out,
                   left, gate, boot>>
    /\ UNCHANGED <<requests, lock, cleanup, ratelimit, lim, clock, rule, admitted,
                   waved, verdict>>

----------------------------------------------------------------------------
(* URLService.get_long_url *)

\* line 162: datetime.now(timezone.utc) > expires_at
IsExpired(short_code) == get_url(short_code) /\ now > urls[short_code].expires_at

\* lines 148-149 and 171-172: execute_async sends the increment and returns
Dispatch(short_code) ==
    /\ inflight' = [inflight EXCEPT ![short_code] = @ + 1]
    /\ UNCHANGED lost

\* the history a resolve of short_code by p leaves when it returns status
Served(p, short_code, status) ==
    /\ served' = IF status = 200 THEN [served EXCEPT ![short_code] = @ + 1] ELSE served
    /\ raced' = IF status = 200 /\ \E q \in Procs \ {p} :
                      req[q].op = "resolve" /\ req[q].code = short_code
                 THEN raced \cup {short_code} ELSE raced

\* get_long_url, were the format of the code not checked
get_long_url_unvalidated(p, short_code) ==
    LET cached_url == cache_get_url(short_code)
        r == [op |-> "resolve", url |-> NoUrl, alias |-> NoAlias,
              code |-> short_code, ttl |-> 0]
    IN
    /\ Arrive(p)
    /\ IF cached_url # NoUrl
       THEN /\ Dispatch(short_code)
            /\ Served(p, short_code, 200)
            /\ Answer(p, r, NoSnap, Response(200, short_code, cached_url, 0))
       ELSE /\ Begin(p, r, NoSnap, "get_url")
            /\ UNCHANGED clickv
    /\ UNCHANGED <<store, cachev, env, loc, hist>>
    /\ UNCHANGED limv


\* lines 136-150: the code is validated and the Redis url cache is read; a
\* hit dispatches the increment and returns
get_long_url(p, short_code) ==
    LET cached_url == cache_get_url(short_code)
        r == [op |-> "resolve", url |-> NoUrl, alias |-> NoAlias,
              code |-> short_code, ttl |-> 0]
        s == [NoSnap EXCEPT !.urls = minted[short_code],
                            !.expired = IsExpired(short_code)]
    IN
    /\ Arrive(p)
    /\ IF ~valid_short_code(short_code)
       THEN /\ Reject(p, r, Response(404, short_code, NoUrl, 0))
            /\ UNCHANGED clickv
       ELSE IF cached_url # NoUrl
       THEN /\ Dispatch(short_code)
            /\ Served(p, short_code, 200)
            /\ Answer(p, r, s, Response(200, short_code, cached_url, 0))
       ELSE /\ Begin(p, r, s, "get_url")
            /\ UNCHANGED clickv
    /\ UNCHANGED <<store, cachev, env, loc, hist>>
    /\ UNCHANGED limv

\* lines 152-165: the row is read from Cassandra: none is 404, an expired
\* one goes on to the cache delete
resolve_get_url(p) ==
    LET short_code == req[p].code IN
    /\ pc[p] = "get_url"
    /\ IF ~get_url(short_code)
       THEN Return(p, Response(404, short_code, NoUrl, 0))
       ELSE /\ loc' = [loc EXCEPT ![p].long_url = urls[short_code].long_url]
            /\ Goto(p, IF IsExpired(short_code) THEN "delete_url" ELSE "cache_url")
    /\ UNCHANGED <<store, cachev, env, clickv, hist, left>>
    /\ UNCHANGED limv

\* an expired resolve that dispatches the increment before it fails
resolve_delete_url_counted(p) ==
    /\ pc[p] = "delete_url"
    /\ cacheUrl' = cache_delete_url(req[p].code)
    /\ Dispatch(req[p].code)
    /\ UNCHANGED <<served, raced>>
    /\ Return(p, Response(410, req[p].code, NoUrl, 0))
    /\ UNCHANGED <<store, cacheDedup, env, hist, left>>
    /\ UNCHANGED limv

\* lines 163-165
resolve_delete_url(p) ==
    /\ pc[p] = "delete_url"
    /\ cacheUrl' = cache_delete_url(req[p].code)
    /\ Return(p, Response(410, req[p].code, NoUrl, 0))
    /\ UNCHANGED <<store, cacheDedup, env, clickv, hist, left>>
    /\ UNCHANGED limv

\* a resolve that waits for its increment before it returns
resolve_cache_url_awaited(p) ==
    /\ pc[p] = "cache_url"
    /\ cacheUrl' = cache_set_url(req[p].code, loc[p].long_url)
    /\ url_clicks' = increment_clicks(req[p].code)
    /\ Served(p, req[p].code, 200)
    /\ Return(p, Response(200, req[p].code, loc[p].long_url, 0))
    /\ UNCHANGED <<urls, url_dedup, inflight, lost, cacheDedup, env, hist, left>>
    /\ UNCHANGED limv

\* lines 167-174
resolve_cache_url(p) ==
    /\ pc[p] = "cache_url"
    /\ cacheUrl' = cache_set_url(req[p].code, loc[p].long_url)
    /\ Dispatch(req[p].code)
    /\ Served(p, req[p].code, 200)
    /\ Return(p, Response(200, req[p].code, loc[p].long_url, 0))
    /\ UNCHANGED <<store, cacheDedup, env, hist, left>>
    /\ UNCHANGED limv

\* the cluster applies a dispatched increment: a counter update is one
\* atomic write
apply_increment(c) ==
    /\ inflight[c] > 0
    /\ url_clicks' = increment_clicks(c)
    /\ inflight' = [inflight EXCEPT ![c] = @ - 1]
    /\ UNCHANGED <<urls, url_dedup, cachev, env, pc, loc, lost, served, raced,
                   hist, callv, out>>
    /\ UNCHANGED limv

\* a dispatched increment fails and is not applied: the errback logs it
fail_increment(c) ==
    /\ inflight[c] > 0
    /\ inflight' = [inflight EXCEPT ![c] = @ - 1]
    /\ lost' = [lost EXCEPT ![c] = @ + 1]
    /\ UNCHANGED <<store, cachev, env, pc, loc, served, raced, hist, callv, out>>
    /\ UNCHANGED limv

----------------------------------------------------------------------------
(* URLService.get_stats *)

\* lines 178-189: the code is validated and the row read
get_stats(p, short_code) ==
    LET r == [op |-> "stats", url |-> NoUrl, alias |-> NoAlias,
              code |-> short_code, ttl |-> 0]
        s == [NoSnap EXCEPT !.served = served[short_code],
                            !.pending = inflight[short_code] + lost[short_code]]
    IN
    /\ Arrive(p)
    /\ IF ~valid_short_code(short_code)
       THEN /\ Reject(p, r, Response(404, short_code, NoUrl, 0))
            /\ UNCHANGED loc
       ELSE IF ~get_url(short_code)
       THEN /\ Answer(p, r, s, Response(404, short_code, NoUrl, 0))
            /\ UNCHANGED loc
       ELSE /\ loc' = [loc EXCEPT ![p] = [NoLoc EXCEPT
                          !.long_url = urls[short_code].long_url,
                          !.expires_at = urls[short_code].expires_at]]
            /\ Begin(p, r, s, "get_clicks")
    /\ UNCHANGED <<store, cachev, env, clickv, hist>>
    /\ UNCHANGED limv

\* a get_stats that leaves the row it read in the Redis url cache
stats_get_clicks_caching(p) ==
    /\ pc[p] = "get_clicks"
    /\ cacheUrl' = cache_set_url(req[p].code, loc[p].long_url)
    /\ Return(p, Response(200, req[p].code, loc[p].long_url, get_clicks(req[p].code)))
    /\ UNCHANGED <<store, cacheDedup, env, clickv, hist, left>>
    /\ UNCHANGED limv

\* lines 191-199
stats_get_clicks(p) ==
    /\ pc[p] = "get_clicks"
    /\ Return(p, Response(200, req[p].code, loc[p].long_url, get_clicks(req[p].code)))
    /\ UNCHANGED <<store, cachev, env, clickv, hist, left>>
    /\ UNCHANGED limv

----------------------------------------------------------------------------
(* Failures: session.execute raises (no handler catches it: the request    *)
(* fails with 500), or the handler is cancelled or its process dies.       *)

\* the calls of session.execute
DbSteps == {"get_dedup", "check", "recheck", "insert_url", "insert_dedup",
            "get_url", "get_clicks"}

\* db_error, were the exception swallowed and the call carried on
db_error_swallowed(p, applied) ==
    /\ pc[p] \in {"insert_url", "insert_dedup"}
    /\ ~applied
    /\ Goto(p, IF pc[p] = "insert_url" THEN "insert_dedup" ELSE "set_url")
    /\ UNCHANGED <<store, cachev, env, loc, clickv, hist, left>>
    /\ UNCHANGED limv

\* session.execute raises in handler p.  A write that timed out may have
\* been applied all the same.
db_error(p, applied) ==
    /\ pc[p] \in DbSteps
    /\ applied => pc[p] \in {"insert_url", "insert_dedup"}
    /\ urls' = IF applied /\ pc[p] = "insert_url"
               THEN insert_url(loc[p].short_code, req[p].url, loc[p].expires_at)
               ELSE urls
    /\ url_dedup' = IF applied /\ pc[p] = "insert_dedup"
                    THEN insert_dedup(get_url_hash(req[p].url), loc[p].short_code)
                    ELSE url_dedup
    /\ written' = IF applied /\ pc[p] = "insert_dedup"
                  THEN written \cup {loc[p].short_code} ELSE written
    /\ Return(p, [Response(500, NoCode, NoUrl, 0) EXCEPT !.detail = "Internal Server Error"])
    /\ UNCHANGED <<url_clicks, cachev, env, clickv, left>>
    /\ UNCHANGED <<lastRet, minted, aliased>>
    /\ UNCHANGED limv

\* the first session.execute of get_stats raises
get_stats_raises(p, short_code) ==
    /\ Arrive(p)
    /\ Answer(p, [op |-> "stats", url |-> NoUrl, alias |-> NoAlias,
                  code |-> short_code, ttl |-> 0],
              NoSnap,
              [Response(500, NoCode, NoUrl, 0) EXCEPT !.detail = "Internal Server Error"])
    /\ UNCHANGED <<store, cachev, env, loc, clickv, hist>>
    /\ UNCHANGED limv

\* handler p is cancelled, or its process dies, between two round trips:
\* nothing is returned
cancel(p) ==
    /\ ~Idle(p)
    /\ pc' = [pc EXCEPT ![p] = "idle"]
    /\ req' = [req EXCEPT ![p] = NoReq]
    /\ loc' = [loc EXCEPT ![p] = NoLoc]
    /\ snap' = [snap EXCEPT ![p] = NoSnap]
    /\ solo' = [solo EXCEPT ![p] = TRUE]
    /\ UNCHANGED <<store, cachev, env, clickv, hist, out, left>>
    /\ UNCHANGED limv

----------------------------------------------------------------------------
(* The environment: the clock and Redis. *)

Unexpired(f, t) == [k \in {x \in DOMAIN f : t < f[x].exp} |-> f[k]]

\* time passes; Redis drops the keys whose TTL has run out
Tick(d) ==
    /\ left.ticks > 0
    /\ left' = [left EXCEPT !.ticks = @ - 1]
    /\ now' = now + d
    /\ cacheUrl' = Unexpired(cacheUrl, now + d)
    /\ cacheDedup' = Unexpired(cacheDedup, now + d)
    /\ UNCHANGED <<store, cacheUp, pc, loc, clickv, hist, req, snap, solo, out>>
    /\ UNCHANGED limv

\* Redis evicts a url: key
EvictUrl(c) ==
    /\ c \in DOMAIN cacheUrl
    /\ cacheUrl' = Drop(cacheUrl, c)
    /\ UNCHANGED <<store, cacheDedup, env, pc, loc, clickv, hist, callv, out>>
    /\ UNCHANGED limv

\* Redis evicts a dedup: key
EvictDedup(h) ==
    /\ h \in DOMAIN cacheDedup
    /\ cacheDedup' = Drop(cacheDedup, h)
    /\ UNCHANGED <<store, cacheUrl, env, pc, loc, clickv, hist, callv, out>>
    /\ UNCHANGED limv

\* Redis stops answering: every operation raises RedisError
RedisFails ==
    /\ cacheUp
    /\ cacheUp' = FALSE
    /\ UNCHANGED <<store, cachev, now, pc, loc, clickv, hist, callv, out>>
    /\ UNCHANGED limv

\* Redis answers again
RedisRecovers ==
    /\ ~cacheUp
    /\ cacheUp' = TRUE
    /\ UNCHANGED <<store, cachev, now, pc, loc, clickv, hist, callv, out>>
    /\ UNCHANGED limv

----------------------------------------------------------------------------
(* app/middleware/rate_limit.py: what the two limiters share in the model. *)

RECURSIVE Total(_, _)
\* how many of the admissions of bag b carry a timestamp in T
Total(b, T) ==
    IF T \cap DOMAIN b = {} THEN 0
    ELSE LET t == CHOOSE x \in T \cap DOMAIN b : TRUE
         IN  b[t] + Total(b, T \ {t})

\* the trailing window of key k at time t: the timestamps ts with
\* t - window < ts <= t
Trailing(k, t) == {ts \in (t - WindowTicks(k) + 1) .. t : ts >= 0}

\* the calls on key k admitted on the limiter's count in the window trailing t
Seen(k, t) == Total(admitted[k], Trailing(k, t))

LimIdle(w) == lim[w].pc = "idle"

\* a request reaches the limiter and worker w takes it
LimArrive(w) ==
    /\ LimIdle(w)
    /\ w <= left.workers
    /\ \A q \in Procs : q < w => ~LimIdle(q)
    /\ left.calls > 0
    /\ left' = [left EXCEPT !.calls = @ - 1]

\* the call of w starts; it overlaps the calls in flight.  solo says that
\* no call so far has overlapped another.
LimBegin(w, c) ==
    lim' = [q \in Procs |->
               IF q = w
               THEN [c EXCEPT !.solo = verdict.solo /\ \A x \in Procs \ {w} : LimIdle(x)]
               ELSE [lim[q] EXCEPT !.solo = LimIdle(q)]]

\* is_allowed returns (allowed, remaining, reset_time) to the caller of w;
\* counted says that the limiter admitted the call on its count, failed
\* that it failed open
LimReturn(w, allowed, remaining, reset, counted, failed) ==
    /\ lim' = [lim EXCEPT ![w] = NoCall]
    /\ verdict' = [variant |-> lim[w].variant, key |-> lim[w].key,
                   now |-> lim[w].now, seen |-> lim[w].seen, solo |-> lim[w].solo,
                   failed |-> failed, allowed |-> allowed,
                   remaining |-> remaining, reset |-> reset]
    /\ admitted' =
           IF counted
           THEN LET b == admitted[lim[w].key]
                    t == lim[w].now
                IN  [admitted EXCEPT ![lim[w].key] =
                        Put(b, t, IF t \in DOMAIN b THEN b[t] + 1 ELSE 1)]
           ELSE admitted
    /\ waved' = (waved \/ failed)

\* time.time() advances; Redis drops the ratelimit: keys whose EXPIRE has
\* run out
Elapse(d) ==
    /\ left.ticks > 0
    /\ left' = [left EXCEPT !.ticks = @ - 1]
    /\ clock' = clock + d
    /\ ratelimit' = Unexpired(ratelimit, clock + d)
    /\ UNCHANGED <<requests, lock, cleanup, lim, rule, admitted, waved, verdict>>
    /\ UNCHANGED <<datav, cacheUp>>

\* the caller of the call that was rejected last waits the reset_time it
\* was given before it calls again
retry_after ==
    /\ \A w \in Procs : LimIdle(w)
    /\ verdict.variant # "none"
    /\ ~verdict.allowed
    /\ Elapse(verdict.reset * TicksPerSecond)

----------------------------------------------------------------------------
(* RedisRateLimiter.is_allowed *)

\* the sorted set ratelimit:<key>: its members are str(now), so the calls
\* that read the same timestamp share one member
zset(k) == IF k \in DOMAIN ratelimit THEN ratelimit[k].members ELSE {}

\* ZREMRANGEBYSCORE key 0 window_start; ZADD key {str(now): now}
zpruned(k, t) == {m \in zset(k) : m > t - WindowTicks(k)} \cup {t}

\* a call arrives and reads time.time() before it queues its pipeline
redis_is_allowed(w, k) ==
    /\ LimArrive(w)
    /\ LimBegin(w, [pc |-> "pipeline", variant |-> "redis", key |-> k,
                    now |-> clock, seen |-> Seen(k, clock), solo |-> TRUE])
    /\ UNCHANGED <<requests, lock, cleanup, ratelimit, clock, rule, admitted,
                   waved, verdict>>
    /\ UNCHANGED <<datav, cacheUp>>

\* pipe.execute(): MULTI .. EXEC runs the four commands as one; the call is
\* admitted unless ZCARD exceeds the limit.  When Redis raises, the call is
\* allowed with the whole limit remaining.
redis_pipeline(w) ==
    /\ lim[w].pc = "pipeline"
    /\ LET k == lim[w].key
           members == zpruned(k, lim[w].now)
           current_count == Cardinality(members)
       IN  IF ~cacheUp
           THEN /\ LimReturn(w, TRUE, rule[k].requests, rule[k].window, FALSE, TRUE)
                /\ UNCHANGED ratelimit
           ELSE /\ ratelimit' = Put(ratelimit, k,
                                    [members |-> members,
                                     exp |-> clock + WindowTicks(k)])
                /\ IF current_count > rule[k].requests
                   THEN /\ lim' = [lim EXCEPT ![w].pc = "zrem"]
                        /\ UNCHANGED <<admitted, waved, verdict>>
                   ELSE LimReturn(w, TRUE, rule[k].requests - current_count,
                                  rule[k].window, TRUE, FALSE)
    /\ UNCHANGED <<requests, lock, cleanup, clock, rule>>
    /\ UNCHANGED <<datav, cacheUp, left>>

\* redis_zrem, were the call rejected when ZREM raises
redis_zrem_strict(w) ==
    /\ lim[w].pc = "zrem"
    /\ LimReturn(w, FALSE, 0, rule[lim[w].key].window, FALSE, ~cacheUp)
    /\ UNCHANGED <<requests, lock, cleanup, ratelimit, clock, rule>>
    /\ UNCHANGED <<datav, cacheUp, left>>

\* over the limit: ZREM key str(now) in a round trip of its own, then the
\* call is rejected.  When Redis raises, the call is allowed.
redis_zrem(w) ==
    /\ lim[w].pc = "zrem"
    /\ LET k == lim[w].key
       IN  IF ~cacheUp
           THEN /\ LimReturn(w, TRUE, rule[k].requests, rule[k].window, FALSE, TRUE)
                /\ UNCHANGED ratelimit
           ELSE /\ ratelimit' =
                       IF k \in DOMAIN ratelimit
                       THEN [ratelimit EXCEPT ![k].members = @ \ {lim[w].now}]
                       ELSE ratelimit
                /\ LimReturn(w, FALSE, 0, rule[k].window, FALSE, FALSE)
    /\ UNCHANGED <<requests, lock, cleanup, clock, rule>>
    /\ UNCHANGED <<datav, cacheUp, left>>

----------------------------------------------------------------------------
(* InMemoryRateLimiter.is_allowed, cleanup and _cleanup_loop *)

\* the holder of the lock while cleanup runs
Sweeper == 3

\* self._requests[key] of the defaultdict
timestamps(k) == IF k \in DOMAIN requests THEN requests[k] ELSE <<>>

\* mem_is_allowed, were a cleanup loop started without a look at
\* self._cleanup_task
mem_is_allowed_restarting(w, k) ==
    /\ LimArrive(w)
    /\ LimBegin(w, [pc |-> "lock", variant |-> "memory", key |-> k,
                    now |-> 0, seen |-> 0, solo |-> TRUE])
    /\ cleanup' = IF cleanup.tasks = 0
                  THEN [cleanup EXCEPT !.tasks = 1, !.pc = "sleep"]
                  ELSE [cleanup EXCEPT !.tasks = @ + 1]
    /\ UNCHANGED <<requests, lock, ratelimit, clock, rule, admitted, waved, verdict>>
    /\ UNCHANGED <<datav, cacheUp>>

\* a call arrives; the first call starts the cleanup loop
mem_is_allowed(w, k) ==
    /\ LimArrive(w)
    /\ LimBegin(w, [pc |-> "lock", variant |-> "memory", key |-> k,
                    now |-> 0, seen |-> 0, solo |-> TRUE])
    /\ cleanup' = IF cleanup.tasks = 0
                  THEN [cleanup EXCEPT !.tasks = 1, !.pc = "sleep"]
                  ELSE cleanup
    /\ UNCHANGED <<requests, lock, ratelimit, clock, rule, admitted, waved, verdict>>
    /\ UNCHANGED <<datav, cacheUp>>

\* mem_acquire, were the lock not waited for
mem_acquire_unlocked(w) ==
    /\ lim[w].pc = "lock"
    /\ lock' = w
    /\ lim' = [lim EXCEPT ![w].pc = "prune", ![w].now = clock,
                          ![w].seen = Seen(lim[w].key, clock)]
    /\ UNCHANGED <<requests, cleanup, ratelimit, clock, rule, admitted, waved, verdict>>
    /\ UNCHANGED <<datav, cacheUp, left>>

\* async with self._lock: the call waits for the lock, takes it and reads
\* time.time()
mem_acquire(w) ==
    /\ lim[w].pc = "lock"
    /\ lock = Nobody
    /\ lock' = w
    /\ lim' = [lim EXCEPT ![w].pc = "prune", ![w].now = clock,
                          ![w].seen = Seen(lim[w].key, clock)]
    /\ UNCHANGED <<requests, cleanup, ratelimit, clock, rule, admitted, waved, verdict>>
    /\ UNCHANGED <<datav, cacheUp, left>>

\* the timestamps of the key that are still in the window are kept
mem_prune(w) ==
    /\ lim[w].pc = "prune"
    /\ LET k == lim[w].key
           InWindow(ts) == ts > lim[w].now - WindowTicks(k)
       IN  requests' = Put(requests, k, SelectSeq(timestamps(k), InWindow))
    /\ lim' = [lim EXCEPT ![w].pc = "count"]
    /\ UNCHANGED <<lock, cleanup, ratelimit, clock, rule, admitted, waved, verdict>>
    /\ UNCHANGED <<datav, cacheUp, left>>

\* reset_time = int(self._requests[key][0] + window - now), at least 1
reset_time(w) ==
    LET k == lim[w].key
        wait == (timestamps(k)[1] + WindowTicks(k) - lim[w].now) \div TicksPerSecond
    IN  IF wait > 1 THEN wait ELSE 1

\* len(self._requests[key]) >= limit: the call is rejected and the lock
\* released; otherwise it goes on to record itself
mem_count(w) ==
    /\ lim[w].pc = "count"
    /\ IF Len(timestamps(lim[w].key)) >= rule[lim[w].key].requests
       THEN /\ LimReturn(w, FALSE, 0, reset_time(w), FALSE, FALSE)
            /\ lock' = Nobody
       ELSE /\ lim' = [lim EXCEPT ![w].pc = "append"]
            /\ UNCHANGED <<lock, admitted, waved, verdict>>
    /\ UNCHANGED <<requests, cleanup, ratelimit, clock, rule>>
    /\ UNCHANGED <<datav, cacheUp, left>>

\* mem_append, were one list of timestamps kept for all the keys
mem_append_shared(w) ==
    /\ lim[w].pc = "append"
    /\ LET k == lim[w].key
           recorded == Append(timestamps(k), lim[w].now)
       IN  /\ requests' = [x \in DOMAIN requests \cup {k} |->
                              IF x = k THEN recorded
                              ELSE Append(requests[x], lim[w].now)]
           /\ LimReturn(w, TRUE, rule[k].requests - Len(recorded), rule[k].window,
                        TRUE, FALSE)
    /\ lock' = Nobody
    /\ UNCHANGED <<cleanup, ratelimit, clock, rule>>
    /\ UNCHANGED <<datav, cacheUp, left>>

\* the call appends its timestamp, is allowed, and releases the lock
mem_append(w) ==
    /\ lim[w].pc = "append"
    /\ LET k == lim[w].key
           recorded == Append(timestamps(k), lim[w].now)
       IN  /\ requests' = Put(requests, k, recorded)
           /\ LimReturn(w, TRUE, rule[k].requests - Len(recorded), rule[k].window,
                        TRUE, FALSE)
    /\ lock' = Nobody
    /\ UNCHANGED <<cleanup, ratelimit, clock, rule>>
    /\ UNCHANGED <<datav, cacheUp, left>>

\* _cleanup_loop wakes from its sleep; cleanup waits for the lock, takes it
\* and reads time.time()
sweep_acquire ==
    /\ cleanup.pc = "sleep"
    /\ lock = Nobody
    /\ lock' = Sweeper
    /\ cleanup' = [cleanup EXCEPT !.pc = "sweep", !.now = clock]
    /\ UNCHANGED <<requests, ratelimit, lim, clock, rule, admitted, waved, verdict>>
    /\ UNCHANGED <<datav, cacheUp, left>>

\* cleanup keeps the timestamps of the last hour, deletes the keys left
\* with none, and releases the lock; the loop sleeps again
sweep_run ==
    /\ cleanup.pc = "sweep"
    /\ LET Recent(ts) == ts > cleanup.now - SWEEP_AGE * TicksPerSecond
           kept == [k \in DOMAIN requests |-> SelectSeq(requests[k], Recent)]
       IN  requests' = [k \in {x \in DOMAIN kept : kept[x] # <<>>} |-> kept[k]]
    /\ lock' = Nobody
    /\ cleanup' = [cleanup EXCEPT !.pc = "sleep", !.swept = TRUE]
    /\ UNCHANGED <<ratelimit, lim, clock, rule, admitted, waved, verdict>>
    /\ UNCHANGED <<datav, cacheUp, left>>

\* _cleanup_loop, had it no except clause for the errors of cleanup
sweep_raise_fatal ==
    /\ cleanup.pc = "sweep"
    /\ lock' = Nobody
    /\ cleanup' = [cleanup EXCEPT !.pc = "done"]
    /\ UNCHANGED <<requests, ratelimit, lim, clock, rule, admitted, waved, verdict>>
    /\ UNCHANGED <<datav, cacheUp, left>>

\* lines 45-46: cleanup raises; async with releases the lock, and the loop
\* logs the error and goes on to sleep a minute
sweep_raise ==
    /\ cleanup.pc = "sweep"
    /\ lock' = Nobody
    /\ cleanup' = [cleanup EXCEPT !.pc = "backoff", !.logged = TRUE]
    /\ UNCHANGED <<requests, ratelimit, lim, clock, rule, admitted, waved, verdict>>
    /\ UNCHANGED <<datav, cacheUp, left>>

\* line 47: the minute is over and the loop goes round
sweep_backoff ==
    /\ cleanup.pc = "backoff"
    /\ cleanup' = [cleanup EXCEPT !.pc = "sleep"]
    /\ UNCHANGED <<requests, lock, ratelimit, lim, clock, rule, admitted, waved,
                   verdict>>
    /\ UNCHANGED <<datav, cacheUp, left>>

\* lines 43-44: the task is cancelled while it sleeps or waits for the lock
\* (CancelledError breaks the loop; in the sleep of line 47 it ends the task
\* as well)
sweep_cancel ==
    /\ cleanup.pc \in {"sleep", "backoff"}
    /\ cleanup' = [cleanup EXCEPT !.pc = "done"]
    /\ UNCHANGED <<requests, lock, ratelimit, lim, clock, rule, admitted, waved,
                   verdict>>
    /\ UNCHANGED <<datav, cacheUp, left>>

----------------------------------------------------------------------------
(* main.py: the module is imported, then lifespan runs, then requests are  *)
(* served.                                                                 *)

\* redis.py lines 57-66: cache.is_available
is_available == boot.client /\ cacheUp

\* main.py lines 89-92 and RateLimitMiddleware.__init__: the argument
\* redis_client is evaluated when the module is imported, and the limiter
\* is the RedisRateLimiter when it is a client
add_middleware ==
    /\ boot.pc = "import"
    /\ boot' = [boot EXCEPT !.pc = "lifespan",
                            !.limiter = IF is_available THEN "redis" ELSE "memory"]
    /\ UNCHANGED <<store, cachev, env, pc, req, loc, clickv, hist, snap, solo, out,
                   left, gate, drawn>>
    /\ UNCHANGED <<requests, lock, cleanup, ratelimit, lim, clock, rule, admitted,
                   waved, verdict>>

\* main.py lines 54-61 and redis.py lines 30-50: lifespan runs
\* cache.connect(), which keeps the client when its ping is answered
lifespan ==
    /\ boot.pc = "lifespan"
    /\ boot' = [boot EXCEPT !.pc = "serving", !.client = cacheUp]
    /\ UNCHANGED <<store, cachev, env, pc, req, loc, clickv, hist, snap, solo, out,
                   left, gate, drawn>>
    /\ UNCHANGED <<requests, lock, cleanup, ratelimit, lim, clock, rule, admitted,
                   waved, verdict>>

\* rate_limit.py lines 212-214: dispatch calls the limiter the middleware
\* was built with
limiter_is_allowed(w, k) ==
    /\ boot.pc = "serving"
    /\ IF boot.limiter = "redis" THEN redis_is_allowed(w, k) ELSE mem_is_allowed(w, k)

----------------------------------------------------------------------------
(* RateLimitMiddleware.dispatch.  main.py builds the middleware when the   *)
(* module is imported, before cache.connect() has run: cache.client is     *)
(* None, and the limiter is the InMemoryRateLimiter.  dispatch runs on the *)
(* event loop and awaits nothing between its start and call_next but the   *)
(* limiter, which awaits nothing but its lock: one request at a time is    *)
(* between its arrival and its verdict.                                    *)

\* lines 199-209: a request for operation op arrives; dispatch has handed
\* on the request before it
dispatch(op) ==
    /\ \/ gate.pc = "idle"
       \/ gate.pc = "call_next" /\ left.calls < gate.calls
    /\ left.calls >= 2
    /\ gate' = [pc |-> "is_allowed", op |-> op, calls |-> left.calls]
    /\ UNCHANGED <<store, cachev, env, pc, req, loc, clickv, hist, snap, solo, out, left>>
    /\ UNCHANGED <<requests, lock, cleanup, ratelimit, lim, clock, rule, admitted,
                   waved, verdict, boot, drawn>>

\* is_allowed has not been called for the request dispatch holds
Unchecked == gate.pc = "is_allowed" /\ left.calls = gate.calls

\* is_allowed has returned for the request dispatch holds
Checked ==
    /\ gate.pc = "is_allowed"
    /\ left.calls < gate.calls
    /\ \A w \in Procs : LimIdle(w)

\* lines 212-214
dispatch_is_allowed(w) == Unchecked /\ mem_is_allowed(w, limit_key(gate.op))

\* a dispatch that passes on the request the limiter rejected
too_many_requests_ignored ==
    /\ Checked
    /\ ~verdict.allowed
    /\ gate' = [gate EXCEPT !.pc = "call_next", !.calls = left.calls]
    /\ UNCHANGED <<store, cachev, env, pc, req, loc, clickv, hist, snap, solo, out, left>>
    /\ UNCHANGED <<requests, lock, cleanup, ratelimit, lim, clock, rule, admitted,
                   waved, verdict, boot, drawn>>

\* lines 216-229: the request the limiter rejected is answered with 429
too_many_requests ==
    /\ Checked
    /\ ~verdict.allowed
    /\ gate' = NoGate
    /\ out' = [NoOut EXCEPT !.req = [NoReq EXCEPT !.op = gate.op],
                            !.ret = Response(429, NoCode, NoUrl, 0)]
    /\ UNCHANGED <<store, cachev, env, pc, req, loc, clickv, hist, snap, solo, left>>
    /\ UNCHANGED <<requests, lock, cleanup, ratelimit, lim, clock, rule, admitted,
                   waved, verdict, boot, drawn>>

\* lines 231-232: the request the limiter allowed goes on to call_next
call_next ==
    /\ Checked
    /\ verdict.allowed
    /\ gate' = [gate EXCEPT !.pc = "call_next", !.calls = left.calls]
    /\ UNCHANGED <<store, cachev, env, pc, req, loc, clickv, hist, snap, solo, out, left>>
    /\ UNCHANGED <<requests, lock, cleanup, ratelimit, lim, clock, rule, admitted,
                   waved, verdict, boot, drawn>>

\* call_next has not reached the endpoint of operation op yet
Passed(op) == gate.pc = "call_next" /\ left.calls = gate.calls /\ gate.op = op

----------------------------------------------------------------------------
(* The requests that arrive, the round trips of the requests in flight,    *)
(* and what Cassandra, Redis and the clock do on their own.                *)

CreateCalls ==
    \E p \in Procs, u \in URLs, a \in Aliases \cup {NoAlias}, t \in TTLDays :
        create_short_url(p, u, a, t)

CreateSteps ==
    \/ \E p \in Procs : create_get_dedup(p)
    \/ \E p \in Procs : create_repair(p)
    \/ \E p \in Procs : create_check(p)
    \/ \E p \in Procs : create_recheck(p)
    \/ \E p \in Procs : create_insert_url(p)
    \/ \E p \in Procs : create_insert_dedup(p)
    \/ \E p \in Procs : create_set_url(p)
    \/ \E p \in Procs : create_set_dedup(p)

ReadCalls ==
    \/ \E p \in Procs, c \in Codes : get_long_url(p, c)
    \/ \E p \in Procs, c \in Codes : get_stats(p, c)

ReadSteps ==
    \/ \E p \in Procs : resolve_get_url(p)
    \/ \E p \in Procs : resolve_cache_url(p)
    \/ \E p \in Procs : stats_get_clicks(p)
    \/ \E c \in Codes : apply_increment(c)
    \/ \E c \in Codes : fail_increment(c)

\* the round trip of a resolve that found its row expired
ExpiredSteps == \E p \in Procs : resolve_delete_url(p)

Redis ==
    \/ \E c \in Codes : EvictUrl(c)
    \/ \E h \in Hashes : EvictDedup(h)
    \/ RedisFails
    \/ RedisRecovers

Outages == RedisFails \/ RedisRecovers

Clock == \E d \in TimeSteps : Tick(d)

\* time passes between two requests: a request takes milliseconds, and the
\* clock of the model moves by the better part of an hour at least
ClockBetweenCalls == (\A p \in Procs : Idle(p)) /\ Clock

(***************************************************************************)
(* Spec: the whole service from its construction, while the clock stands   *)
(* still: no row expires, and no resolve takes the round trip of           *)
(* ExpiredSteps.                                                           *)
(***************************************************************************)
Next == CreateCalls \/ CreateSteps \/ ReadCalls \/ ReadSteps \/ Redis

Spec == Init /\ [][Next]_vars

(***************************************************************************)
(* SpecSeq: the whole service from its construction, one request at a      *)
(* time, with the clock running between the requests.                      *)
(***************************************************************************)
InitSeq ==
    /\ Built
    /\ LimiterAside
    /\ left = [calls |-> SeqCalls, ticks |-> MaxTicks, workers |-> 1]

NextSeq ==
    \/ CreateCalls \/ CreateSteps \/ ReadCalls \/ ReadSteps \/ ExpiredSteps
    \/ Redis \/ ClockBetweenCalls

SpecSeq == InitSeq /\ [][NextSeq]_vars

(***************************************************************************)
(* SpecServe: the read path, with the clock running, over a store in which *)
(* create_short_url("ua") has left its rows at time 0 (code 0, one day to  *)
(* live); Redis holds what that create wrote through, or nothing.          *)
(***************************************************************************)
Seeded ==
    /\ urls = Put(Empty, 0, [long_url |-> "ua", expires_at |-> DaySeconds])
    /\ url_dedup = Put(Empty, get_url_hash("ua"), 0)
    /\ url_clicks = Empty
    /\ \/ cacheUrl = Empty /\ cacheDedup = Empty
       \/ /\ cacheUrl = Put(Empty, 0, [val |-> "ua", exp |-> URL_TTL])
          /\ cacheDedup = Put(Empty, get_url_hash("ua"), [val |-> 0, exp |-> DEDUP_TTL])
    /\ cacheUp \in BOOLEAN
    /\ now = 0
    /\ drawn = NoDraw
    /\ pc = [p \in Procs |-> "idle"]
    /\ req = [p \in Procs |-> NoReq]
    /\ loc = [p \in Procs |-> NoLoc]
    /\ inflight = [c \in Codes |-> 0]
    /\ lost = [c \in Codes |-> 0]
    /\ served = [c \in Codes |-> 0]
    /\ raced = {}
    /\ lastRet = [u \in URLs |-> IF u = "ua" THEN 0 ELSE NoCode]
    /\ minted = [c \in Codes |-> IF c = 0 THEN {"ua"} ELSE {}]
    /\ aliased = {}
    /\ written = {0}
    /\ snap = [p \in Procs |-> NoSnap]
    /\ solo = [p \in Procs |-> TRUE]
    /\ out = NoOut
    /\ LimiterAside

InitServe == Seeded /\ left = [calls |-> MaxCalls, ticks |-> MaxTicks, workers |-> 2]

NextServe == ReadCalls \/ ReadSteps \/ ExpiredSteps \/ Redis \/ Clock

SpecServe == InitServe /\ [][NextServe]_vars

(***************************************************************************)
(* SpecSteady: the whole service over the store of SpecServe, one request  *)
(* at a time with the clock running between the requests, while Redis      *)
(* answers throughout or not at all.                                       *)
(***************************************************************************)
InitSteady == Seeded /\ left = [calls |-> SeqCalls, ticks |-> MaxTicks, workers |-> 1]

Evictions ==
    \/ \E c \in Codes : EvictUrl(c)
    \/ \E h \in Hashes : EvictDedup(h)

NextSteady ==
    \/ CreateCalls \/ CreateSteps \/ ReadCalls \/ ReadSteps \/ ExpiredSteps
    \/ Evictions \/ ClockBetweenCalls

SpecSteady == InitSteady /\ [][NextSteady]_vars

(***************************************************************************)
(* SpecFaulty: the whole service from its construction, two requests in    *)
(* flight at most, while the clock stands still and Redis answers          *)
(* throughout or not at all; Cassandra may raise, and a handler may be     *)
(* cancelled, at every round trip.                                         *)
(***************************************************************************)
InitFaulty ==
    /\ Built
    /\ LimiterAside
    /\ left = [calls |-> SeqCalls, ticks |-> 0, workers |-> 2]

Faults ==
    \/ \E p \in Procs, applied \in BOOLEAN : db_error(p, applied)
    \/ \E p \in Procs, c \in Codes : get_stats_raises(p, c)
    \/ \E p \in Procs : cancel(p)

NextFaulty == CreateCalls \/ CreateSteps \/ ReadCalls \/ ReadSteps \/ Faults

SpecFaulty == InitFaulty /\ [][NextFaulty]_vars

(***************************************************************************)
(* SpecInput: the whole service from its construction, two requests in     *)
(* flight at most, while the clock stands still; the requests carry        *)
(* well-formed and malformed codes, aliases and long URLs.                 *)
(***************************************************************************)
InitInput ==
    /\ Built
    /\ LimiterAside
    /\ left = [calls |-> SeqCalls, ticks |-> 0, workers |-> 2]

InputCalls ==
    \/ \E p \in Procs, u \in URLs \cup BadURLs,
          a \in Aliases \cup BadAliases \cup {NoAlias}, t \in TTLDays :
           create_short_url(p, u, a, t)
    \/ \E p \in Procs, c \in Codes \cup BadCodes : get_long_url(p, c)
    \/ \E p \in Procs, c \in Codes \cup BadCodes : get_stats(p, c)

NextInput == InputCalls \/ CreateSteps \/ ReadSteps

SpecInput == InitInput /\ [][NextInput]_vars

(***************************************************************************)
(* SpecRedisLimit: the distributed limiter from an empty Redis, two calls  *)
(* in flight at most, under every rule of Rules; Redis may stop answering  *)
(* and the clock runs.                                                     *)
(***************************************************************************)
InitLimit ==
    /\ Built
    /\ cacheUp
    /\ LimiterBuilt
    /\ rule \in [LimitKeys -> Rules]
    /\ left = [calls |-> LimCalls, ticks |-> LimTicks, workers |-> 2]

RedisLimitCalls == \E w \in Procs, k \in LimitKeys : redis_is_allowed(w, k)

RedisLimitSteps ==
    \/ \E w \in Procs : redis_pipeline(w)
    \/ \E w \in Procs : redis_zrem(w)

LimClock == \E d \in LimSteps : Elapse(d)

NextRedisLimit == RedisLimitCalls \/ RedisLimitSteps \/ Outages \/ LimClock

SpecRedisLimit == InitLimit /\ [][NextRedisLimit]_vars

(***************************************************************************)
(* SpecMemLimit: the standalone limiter from its construction, two calls   *)
(* in flight at most, under every rule of Rules, with its cleanup loop and *)
(* the clock running.                                                      *)
(***************************************************************************)
MemLimitCalls == \E w \in Procs, k \in LimitKeys : mem_is_allowed(w, k)

MemLimitSteps ==
    \/ \E w \in Procs : mem_acquire(w)
    \/ \E w \in Procs : mem_prune(w)
    \/ \E w \in Procs : mem_count(w)
    \/ \E w \in Procs : mem_append(w)

Sweeps == sweep_acquire \/ sweep_run

NextMemLimit == MemLimitCalls \/ MemLimitSteps \/ Sweeps \/ LimClock

SpecMemLimit == InitLimit /\ [][NextMemLimit]_vars

(***************************************************************************)
(* SpecTwin: the two limiters side by side, from their construction, under *)
(* every rule of Rules while Redis answers.  The calls are made one at a   *)
(* time, and every call is made to the distributed limiter and then, with  *)
(* the same key at the same time, to the standalone one; the clock runs    *)
(* between the calls.                                                      *)
(***************************************************************************)
InitTwin ==
    /\ Built
    /\ cacheUp
    /\ LimiterBuilt
    /\ rule \in [LimitKeys -> Rules]
    /\ left = [calls |-> 2 * LimCalls, ticks |-> LimTicks, workers |-> 1]

\* the call the distributed limiter has answered is still to be made to
\* the standalone one
Owed == verdict.variant = "redis"

TwinCalls ==
    \/ \E w \in Procs, k \in LimitKeys : ~Owed /\ redis_is_allowed(w, k)
    \/ \E w \in Procs : Owed /\ mem_is_allowed(w, verdict.key)

ClockBetweenPairs == (\A w \in Procs : LimIdle(w)) /\ ~Owed /\ LimClock

NextTwin ==
    \/ TwinCalls \/ RedisLimitSteps \/ MemLimitSteps \/ Sweeps
    \/ ClockBetweenPairs

SpecTwin == InitTwin /\ [][NextTwin]_vars

(***************************************************************************)
(* SpecKeys: the two limiters from their construction while Redis answers, *)
(* two calls in flight at most, on either key and to either limiter, under *)
(* every rule of Rules, with the cleanup loop and the clock running.       *)
(***************************************************************************)
NextKeys ==
    \/ RedisLimitCalls \/ RedisLimitSteps \/ MemLimitCalls \/ MemLimitSteps
    \/ Sweeps \/ LimClock

SpecKeys == InitLimit /\ [][NextKeys]_vars

(***************************************************************************)
(* SpecSweep: the standalone limiter from its construction, two calls in   *)
(* flight at most, with a cleanup loop whose sweeps may raise and which    *)
(* may be cancelled.  asyncio runs every task that is ready, and its Lock  *)
(* wakes the waiters in turn: a call or a sweep that waits for a lock      *)
(* released again and again gets it, and every other step that can be      *)
(* taken is taken.  Nothing obliges the cancellation.                      *)
(***************************************************************************)
InitSweep ==
    /\ Built
    /\ cacheUp
    /\ LimiterBuilt
    /\ \E r \in Rules : rule = [k \in LimitKeys |-> r]
    /\ left = [calls |-> LimCalls, ticks |-> LimTicks, workers |-> 2]

SweepFailures == sweep_raise \/ sweep_backoff \/ sweep_cancel

NextSweep == MemLimitCalls \/ MemLimitSteps \/ Sweeps \/ SweepFailures \/ LimClock

FairSweep ==
    /\ \A w \in Procs : /\ SF_vars(mem_acquire(w))
                         /\ WF_vars(mem_prune(w))
                         /\ WF_vars(mem_count(w))
                         /\ WF_vars(mem_append(w))
    /\ SF_vars(sweep_acquire)
    /\ WF_vars(sweep_run \/ sweep_raise)
    /\ WF_vars(sweep_backoff)

SpecSweep == InitSweep /\ [][NextSweep]_vars /\ FairSweep

(***************************************************************************)
(* SpecBoot: the application from the import of main.py: the middleware is *)
(* added, lifespan connects the cache, and the requests are served, two    *)
(* in the limiter at most, under every rule of Rules.  Redis may answer    *)
(* or not at any time of the start, and the clock runs.  The round trips   *)
(* are those of the limiter the middleware can have been built with.       *)
(***************************************************************************)
InitBoot ==
    /\ Built
    /\ cacheUp \in BOOLEAN
    /\ LimiterNew
    /\ boot = NoBoot
    /\ rule \in [LimitKeys -> Rules]
    /\ left = [calls |-> LimCalls, ticks |-> LimTicks, workers |-> 2]

BootSteps == add_middleware \/ lifespan

BootCalls == \E w \in Procs, k \in LimitKeys : limiter_is_allowed(w, k)

NextBoot == BootSteps \/ Outages \/ BootCalls \/ MemLimitSteps \/ Sweeps \/ LimClock

SpecBoot == InitBoot /\ [][NextBoot]_vars

(***************************************************************************)
(* SpecRetry: the two limiters from their construction while Redis         *)
(* answers, one call at a time, on either key and to either limiter, under *)
(* every rule of Rules; the clock runs, and a caller that was rejected may *)
(* wait the time it was told to.                                           *)
(***************************************************************************)
InitRetry ==
    /\ Built
    /\ cacheUp
    /\ LimiterBuilt
    /\ rule \in [LimitKeys -> Rules]
    /\ left = [calls |-> LimCalls, ticks |-> LimTicks + 1, workers |-> 1]

NextRetry ==
    \/ RedisLimitCalls \/ RedisLimitSteps \/ MemLimitCalls \/ MemLimitSteps
    \/ Sweeps \/ LimClock \/ retry_after

SpecRetry == InitRetry /\ [][NextRetry]_vars

(***************************************************************************)
(* SpecLongWindow: the standalone limiter as SpecMemLimit has it, called   *)
(* with the windows of Windows and with a window of two hours as well:     *)
(* is_allowed takes any window, and cleanup keeps one hour.                *)
(***************************************************************************)
LongWindows == Windows \cup {2 * SWEEP_AGE}

InitLongWindow ==
    /\ Built
    /\ cacheUp
    /\ LimiterBuilt
    /\ rule \in [LimitKeys -> [requests : 1 .. MaxLimit, window : LongWindows]]
    /\ left = [calls |-> LimCalls, ticks |-> LimTicks, workers |-> 2]

SpecLongWindow == InitLongWindow /\ [][NextMemLimit]_vars

(***************************************************************************)
(* SpecCodec: the generation of short codes on its own: the digest of the  *)
(* long URL and the random bytes take the values of the model, and the     *)
(* text of the code is made of them.                                       *)
(***************************************************************************)
InitCodec ==
    /\ Built
    /\ LimiterAside
    /\ left = [calls |-> 0, ticks |-> 0, workers |-> 0]

NextCodec ==
    \/ \E hash \in HashBytes, random \in token_bytes(2) : generate_text(hash, random)
    \/ \E random \in token_bytes(6) : fallback_text(random)

SpecCodec == InitCodec /\ [][NextCodec]_vars

(***************************************************************************)
(* SpecCancel: the whole service from its construction, one request at a   *)
(* time, each of which may be cancelled between any two of its round       *)
(* trips; the clock stands still and Redis answers throughout or not at    *)
(* all.                                                                    *)
(***************************************************************************)
InitCancel ==
    /\ Built
    /\ LimiterAside
    /\ left = [calls |-> MaxCalls, ticks |-> 0, workers |-> 1]

NextCancel ==
    \/ CreateCalls \/ CreateSteps \/ ReadCalls \/ ReadSteps
    \/ \E p \in Procs : cancel(p)

SpecCancel == InitCancel /\ [][NextCancel]_vars

(***************************************************************************)
(* SpecRace: creates of one new long URL without alias, two of them in     *)
(* flight at most, and the reads, over the store of SpecServe, which holds *)
(* the row of another long URL; the codes generated for the two long URLs  *)
(* share their hash bytes.  The clock stands still and Redis answers       *)
(* throughout or not at all.                                               *)
(***************************************************************************)
NewURL == "ub"

InitRace == Seeded /\ left = [calls |-> MaxCalls, ticks |-> 0, workers |-> 2]

RaceCalls == \E p \in Procs, t \in TTLDays : create_short_url(p, NewURL, NoAlias, t)

NextRace == RaceCalls \/ CreateSteps \/ ReadCalls \/ ReadSteps

SpecRace == InitRace /\ [][NextRace]_vars

(***************************************************************************)
(* SpecGate: the application as main.py builds it, from its construction:  *)
(* every request passes through RateLimitMiddleware.dispatch, under the    *)
(* same limit for every key, and on to the service; two requests at most   *)
(* are in the service at once, and the clock stands still.                 *)
(***************************************************************************)
InitGate ==
    /\ Built
    /\ LimiterBuilt
    /\ \E r \in Rules : rule = [k \in GateKeys |-> r]
    /\ left = [calls |-> 2 * SeqCalls, ticks |-> 0, workers |-> 2]

GateSteps ==
    \/ \E op \in {"create", "resolve", "stats"} : dispatch(op)
    \/ \E w \in Procs : dispatch_is_allowed(w)
    \/ too_many_requests
    \/ call_next

\* the endpoints call_next reaches
GateCalls ==
    \/ \E p \in Procs, u \in URLs, a \in Aliases \cup {NoAlias}, t \in TTLDays :
           Passed("create") /\ create_short_url(p, u, a, t)
    \/ \E p \in Procs, c \in Codes : Passed("resolve") /\ get_long_url(p, c)
    \/ \E p \in Procs, c \in Codes : Passed("stats") /\ get_stats(p, c)

NextGate ==
    \/ GateSteps \/ MemLimitSteps \/ GateCalls \/ CreateSteps \/ ReadSteps

SpecGate == InitGate /\ [][NextGate]_vars

----------------------------------------------------------------------------
(* Properties of create_short_url under Spec. *)

\* C1: two successive create calls with the same long URL and no custom
\* alias return the same short code, whatever happens to the cache between
\* them: a create that overlaps no other call and succeeds returns the code
\* the previous create of that URL returned.
C1_CreateIdempotent ==
    (/\ out.req.op = "create"
     /\ out.req.alias = NoAlias
     /\ out.ret.status = 200
     /\ out.solo
     /\ out.snap.code # NoCode)
    => out.ret.short_code = out.snap.code

\* C2: the codes that creates without alias return for distinct long URLs
\* are pairwise distinct, under any interleaving of the creates.
C2_DistinctCodes ==
    \A u \in URLs, v \in URLs :
        (u # v /\ lastRet[u] # NoCode /\ lastRet[v] # NoCode)
        => lastRet[u] # lastRet[v]

\* C3: a row of the urls table is never mutated: every step leaves each row
\* in the table, with the long URL it had.
C3_RecordsNeverMutated ==
    [][\A c \in DOMAIN urls :
           c \in DOMAIN urls' /\ urls'[c].long_url = urls[c].long_url]_vars

\* C4: a resolve of a short code, issued after a create returned that code
\* for a long URL and before the row expires, returns exactly that long URL.
C4_RoundTrip ==
    (out.req.op = "resolve" /\ ~out.snap.expired)
    => \A u \in out.snap.urls : out.ret.status = 200 /\ out.ret.long_url = u

----------------------------------------------------------------------------
(* Properties of get_long_url and get_stats under SpecServe. *)

\* the step in which handler p returns from the call it began earlier
Returns(p) == pc[p] # "idle" /\ pc'[p] = "idle"

\* the step in which a call arrives and is answered at once
Answered == left'.calls < left.calls /\ pc' = pc

\* the step ends a resolve of short code c
ResolveEnds(c) ==
    /\ out'.req.op = "resolve"
    /\ out'.req.code = c
    /\ Answered \/ \E p \in Procs : Returns(p) /\ req[p].op = "resolve"

\* C5: a resolve of a short code whose row had expired when the call was
\* issued fails with 410 (not 404, not a long URL), and Redis, when it
\* answers, holds no url: key for the code when the resolve ends; also when
\* the key was written through by the create or cached by an earlier resolve.
C5_ExpiredResolveFails ==
    [][\A c \in Codes :
           (ResolveEnds(c) /\ out'.snap.expired)
           => /\ out'.ret.status = 410
              /\ cacheUp => c \notin DOMAIN cacheUrl']_vars

\* C6: when the url: key of a code with an unexpired row is gone (evicted
\* or expired), the next resolve, which misses, returns the row's long URL,
\* and Redis, when it answers, holds the code's key with that long URL
\* when the resolve ends.
C6_CacheAsideRepair ==
    [][\A c \in Codes :
           (ResolveEnds(c) /\ ~out'.hit /\ get_url(c) /\ ~IsExpired(c))
           => /\ out'.ret.status = 200
              /\ out'.ret.long_url = urls[c].long_url
              /\ cacheUp => /\ c \in DOMAIN cacheUrl'
                            /\ cacheUrl'[c].val = urls[c].long_url
                            /\ now < cacheUrl'[c].exp]_vars

\* a resolve that missed has returned the long URL and left it in Redis,
\* at a time when the key the create had written was gone
C6_Witness ==
    /\ out.req.op = "resolve"
    /\ ~out.hit
    /\ out.ret.status = 200
    /\ out.ret.long_url = "ua"
    /\ cacheUp
    /\ out.req.code \in DOMAIN cacheUrl
    /\ cacheUrl[out.req.code].val = "ua"
    /\ cacheUrl[out.req.code].exp > URL_TTL

\* the step ends a stats call for short code c
StatsEnds(c) ==
    /\ out'.req.op = "stats"
    /\ out'.req.code = c
    /\ Answered \/ \E p \in Procs : Returns(p) /\ req[p].op = "stats"

\* C8: once the resolves of a code have all returned and the increments
\* they dispatched have all been applied (none in flight, none failed),
\* stats reports as many clicks as resolves have returned the code's URL,
\* whether the resolves overlapped and whether they hit the cache or not.
C8_ClickAccounting ==
    [][\A c \in Codes :
           (/\ StatsEnds(c)
            /\ out'.ret.status = 200
            /\ \A q \in Procs : ~(req[q].op = "resolve" /\ req[q].code = c)
            /\ inflight[c] = 0
            /\ lost[c] = 0)
           => out'.ret.clicks = served[c]]_vars

\* two resolves of the code overlapped, their increments are applied, and
\* stats has reported 2
C8_Witness ==
    /\ out.req.op = "stats"
    /\ out.ret.status = 200
    /\ out.req.code \in raced
    /\ served[out.req.code] = 2
    /\ inflight[out.req.code] = 0
    /\ lost[out.req.code] = 0
    /\ out.ret.clicks = 2

----------------------------------------------------------------------------
(* Properties of the calls made one at a time, under SpecSeq. *)

\* C7 as stated: the first create with a custom alias succeeds, and a
\* create with an alias that an earlier create succeeded with fails with
\* 409, whatever long URL it carries.
C7_SecondAliasFails ==
    (out.req.op = "create" /\ out.req.alias # NoAlias)
    => out.ret.status = IF out.snap.second THEN 409 ELSE 200

\* C7: a create with a custom alias that overlaps no other call fails with
\* 409 exactly when its long URL has no dedup mapping (in Redis or in
\* Cassandra) and a row has the alias as its code; with a dedup mapping it
\* succeeds with the mapped code (so a second create with the alias and
\* the long URL of the first succeeds), and otherwise with the alias.
C7_AliasConflict ==
    (out.req.op = "create" /\ out.req.alias # NoAlias /\ out.solo)
    => IF out.snap.mapped # NoCode
       THEN out.ret.status = 200 /\ out.ret.short_code = out.snap.mapped
       ELSE IF out.snap.taken
            THEN out.ret.status = 409
            ELSE out.ret.status = 200 /\ out.ret.short_code = out.req.alias

\* a second create with the alias, carrying a long URL that has no dedup
\* mapping, has failed with 409
C7_Witness ==
    /\ out.req.op = "create"
    /\ out.req.alias # NoAlias
    /\ out.snap.second
    /\ out.snap.mapped = NoCode
    /\ out.snap.taken
    /\ out.ret.status = 409

\* C10: in every step the count of every short code stays or grows by
\* exactly 1, and it grows only when an increment that a successful resolve
\* dispatched is applied: no step of a handler (create, stats, a resolve
\* that fails with 404 or 410) moves a counter, and the counts, the
\* increments in flight and the failed ones add up to the resolves that
\* returned the code's URL.
C10_CountersMonotonic ==
    /\ [][\A c \in Codes :
              LET before == IF c \in DOMAIN url_clicks THEN url_clicks[c] ELSE 0
                  after == IF c \in DOMAIN url_clicks' THEN url_clicks'[c] ELSE 0
              IN /\ after = before \/ after = before + 1
                 /\ after # before
                    => pc' = pc /\ left' = left /\ inflight'[c] = inflight[c] - 1]_vars
    /\ [](\A c \in Codes : get_clicks(c) + inflight[c] + lost[c] = served[c])

\* the one increment of the one successful resolve of a created code is
\* applied, and the count is 1
C10_Witness ==
    /\ out.req.op = "resolve"
    /\ out.ret.status = 200
    /\ served[out.req.code] = 1
    /\ inflight[out.req.code] = 0
    /\ get_clicks(out.req.code) = 1
    /\ minted[out.req.code] # {}

----------------------------------------------------------------------------
(* Properties of the cache under SpecSteady and Spec. *)

\* what get_long_url answers for short code c from Cassandra alone
DurableResolve(c) ==
    IF ~get_url(c) THEN Response(404, c, NoUrl, 0)
    ELSE IF IsExpired(c) THEN Response(410, c, NoUrl, 0)
    ELSE Response(200, c, urls[c].long_url, 0)

\* C15: with the calls made one at a time, whether Redis answers throughout
\* or not at all, every call returns what Cassandra alone dictates: a
\* resolve the long URL of the row, 404 without a row and 410 for an
\* expired row, a create answered from Redis the code of the dedup row, and
\* stats the count of the counter row.
C15_CacheTransparent ==
    [][/\ \A c \in Codes : ResolveEnds(c) => out'.ret = DurableResolve(c)
       /\ (Answered /\ out'.req.op = "create")
          => out'.ret.short_code = get_dedup(get_url_hash(out'.req.url))
       /\ \A c \in Codes :
              (StatsEnds(c) /\ out'.ret.status = 200)
              => out'.ret.clicks = get_clicks(c)]_vars

\* C16: every url: key Redis holds carries the long URL of the code's row,
\* and every dedup: key the code of the hash's dedup row, under any
\* interleaving of the creates and the resolves.
C16_CacheAgrees ==
    /\ \A c \in DOMAIN cacheUrl :
           get_url(c) /\ cacheUrl[c].val = urls[c].long_url
    /\ \A h \in DOMAIN cacheDedup : cacheDedup[h].val = get_dedup(h)

\* the step ends a create
CreateEnds ==
    /\ out'.req.op = "create"
    /\ Answered \/ \E p \in Procs : Returns(p) /\ req[p].op = "create"

\* C18: whether Redis answers or raises, no call fails because of it: a
\* resolve or a stats call fails only with 404 for a code without a row or
\* (a resolve) with 410 for an expired row, a create only with 409 for an
\* alias that has a row or with 500 when the generated code and its
\* replacement both have rows; and a create that has written its two rows
\* returns 200, also when both writes to Redis fail.
C18_CacheFailuresSwallowed ==
    [][/\ \A c \in Codes :
              (ResolveEnds(c) /\ out'.ret.status # 200)
              => out'.ret = DurableResolve(c)
       /\ \A c \in Codes :
              (StatsEnds(c) /\ out'.ret.status # 200)
              => out'.ret.status = 404 /\ ~get_url(c)
       /\ (CreateEnds /\ out'.ret.status # 200)
          => \/ /\ out'.ret.status = 409
                /\ out'.req.alias # NoAlias /\ get_url(out'.req.alias)
             \/ /\ out'.ret.status = 500
                /\ \E p \in Procs : pc[p] = "recheck" /\ get_url(loc[p].short_code)
       /\ \A p \in Procs :
              (pc[p] \in {"set_url", "set_dedup"} /\ pc'[p] # pc[p])
              => \/ pc'[p] = "set_dedup"
                 \/ Returns(p) /\ out'.ret.status = 200]_vars

\* a create has returned 200 with its code while Redis did not answer:
\* the rows are written and neither key is
C18_Witness ==
    /\ out.req.op = "create"
    /\ out.ret.status = 200
    /\ ~out.hit
    /\ ~cacheUp
    /\ get_url(out.ret.short_code)
    /\ get_dedup(get_url_hash(out.req.url)) = out.ret.short_code
    /\ cacheUrl = Empty /\ cacheDedup = Empty

----------------------------------------------------------------------------
(* Properties of the malformed requests under SpecInput. *)

\* the request that arrives in the step
Arriving ==
    IF pc' = pc THEN out'.req ELSE req'[CHOOSE p \in Procs : pc'[p] # pc[p]]

\* a resolve or a stats call with a code that is empty, longer than 30
\* characters or has a character that is no letter, digit, hyphen or
\* underscore; a create with a long URL or an alias the validator refuses
Malformed(r) ==
    \/ r.op \in {"resolve", "stats"} /\ r.code \in BadCodes
    \/ r.op = "create" /\ (r.url \in BadURLs \/ r.alias \in BadAliases)

\* C19: a resolve or a stats call with a malformed code fails on arrival
\* with the status and the detail of the 404 of a well-formed code that has
\* no row, and a create with a refused long URL or alias fails on arrival
\* with 400: no round trip to Redis or Cassandra begins, no row, key or
\* counter changes and no increment is dispatched.
C19_ValidationBeforeIO ==
    /\ [](\A p \in Procs : ~Malformed(req[p]))
    /\ [][(left'.calls < left.calls /\ Malformed(Arriving))
          => /\ pc' = pc
             /\ ~out'.hit
             /\ UNCHANGED <<store, cachev, clickv, hist>>
             /\ IF out'.req.op = "create"
                THEN out'.ret.status = 400
                ELSE \A c \in Codes :
                         LET missing == Response(404, c, NoUrl, 0)
                         IN  /\ out'.ret.status = missing.status
                             /\ out'.ret.detail = missing.detail]_vars

\* a resolve of a malformed code has failed with 404 over a store that
\* has rows
C19_Witness ==
    /\ out.req.op = "resolve"
    /\ out.req.code \in BadCodes
    /\ out.ret.status = 404
    /\ out.ret.detail = "URL not found"
    /\ ~out.hit
    /\ urls # Empty

----------------------------------------------------------------------------
(* Properties of the calls that fail, under SpecFaulty. *)

\* C17: every row of url_dedup points to a short code that has a row in
\* urls, also after a create was cancelled, or Cassandra raised, between
\* any two of its round trips; a step that writes a dedup row finds the row
\* of its code written.
C17_NoDanglingDedup ==
    /\ [](\A h \in DOMAIN url_dedup : get_url(url_dedup[h]))
    /\ [][\A h \in Hashes : get_dedup(h)' # get_dedup(h) => get_url(get_dedup(h)')]_vars

\* a create has stopped between its two writes: its row has no dedup row,
\* while another create has left both
C17_Witness ==
    /\ \A p \in Procs : Idle(p)
    /\ \E c \in DOMAIN urls : get_dedup(get_url_hash(urls[c].long_url)) = NoCode
    /\ url_dedup # Empty

\* the write of handler p fails in the step: the handler moves on and the
\* row it was writing is not there
WriteFails(p) ==
    /\ pc'[p] # pc[p]
    /\ \/ pc[p] = "insert_url" /\ ~get_url(loc[p].short_code)'
       \/ /\ pc[p] = "insert_dedup"
          /\ get_dedup(get_url_hash(req[p].url))' # loc[p].short_code

\* the step is a round trip of the create of handler p
CreateStep(p) == req[p].op = "create" /\ pc'[p] # pc[p]

\* a create whose write fails ends there, with 500 if it returns at all,
\* and writes nothing to Redis: the create that writes a key has written
\* both rows of its code, or has read the code in a dedup row
FailuresSurface ==
    \A p \in Procs :
        /\ WriteFails(p)
           => /\ Idle(p)'
              /\ cachev' = cachev
              /\ out' # out => out'.ret.status = 500
        /\ (CreateStep(p) /\ cachev' # cachev)
           => /\ pc[p] \in {"set_url", "set_dedup", "repair"}
              /\ loc[p].short_code \in written

\* the codes whose create is between its two writes
HalfWritten == {loc[p].short_code : p \in {q \in Procs : pc[q] = "insert_dedup"}}

\* C20 as stated: a create whose write of the row or of the dedup row
\* failed fails with an error and writes nothing to Redis, and Redis never
\* holds a key for the code of a create that did not complete its two
\* writes.
C20_NoProjectionOfFailedCreate ==
    /\ [][FailuresSurface]_vars
    /\ [](\A c \in DOMAIN cacheUrl : c \in written \cup HalfWritten)

\* C20: a create whose write of the row or of the dedup row failed fails
\* with 500 and writes nothing to Redis; the row such a create has left can
\* be resolved, and the url: key of a code whose create did not complete its
\* two writes is written by a resolve of the code only.
C20_FailuresSurface ==
    [][/\ FailuresSurface
       /\ \A c \in Codes :
              (c \notin written' /\ c \in DOMAIN cacheUrl' /\ c \notin DOMAIN cacheUrl)
              => \E p \in Procs : req[p].op = "resolve" /\ req[p].code = c /\ Returns(p)]_vars

\* the create of a code has stopped after the write of the row, no create
\* is in flight, a resolve of the code has returned the long URL, and Redis
\* holds the url: key
C20_Witness ==
    /\ \A p \in Procs : Idle(p)
    /\ out.req.op = "resolve"
    /\ out.ret.status = 200
    /\ out.req.code \in DOMAIN cacheUrl
    /\ out.req.code \notin written
    /\ minted[out.req.code] = {}

----------------------------------------------------------------------------
(* Properties of the distributed limiter under SpecRedisLimit. *)

\* the last call returned on the limiter's count, and no call so far has
\* overlapped another or failed open
Counted == verdict.variant # "none" /\ verdict.solo /\ ~waved

\* C11: the calls on a key made one after the other are allowed while fewer
\* than limit calls were admitted in the window that trails them, and
\* rejected with remaining = 0 otherwise: the first limit calls inside a
\* window pass, the next is rejected, and a call more than a window after
\* the last admitted one passes again.
C11_SlidingWindow ==
    Counted =>
        /\ verdict.allowed <=> verdict.seen < rule[verdict.key].requests
        /\ ~verdict.allowed => verdict.remaining = 0

\* C12: while Redis answers every call, the calls the distributed limiter
\* admits on a key in any window (t - window, t] are limit at most, however
\* the calls interleave and whatever timestamps they read.
C12_RedisAdmissionBound ==
    ~waved =>
        \A k \in LimitKeys : \A t \in DOMAIN admitted[k] :
            Total(admitted[k], Trailing(k, t)) <= rule[k].requests

\* a round trip of a call of the distributed limiter taken while Redis does
\* not answer
RedisRaises(w) ==
    /\ lim[w].variant = "redis"
    /\ lim'[w].pc # lim[w].pc
    /\ ~cacheUp

\* C14: a call of the distributed limiter whose pipeline or whose ZREM raises
\* returns allowed, with the whole limit remaining.
C14_FailOpen ==
    [][\A w \in Procs :
           RedisRaises(w) =>
               /\ LimIdle(w)'
               /\ verdict'.allowed
               /\ verdict'.remaining = rule[verdict'.key].requests]_vars

\* a call over the limit was allowed because its ZREM raised: its member
\* is still in the sorted set
C14_Witness ==
    /\ verdict.variant = "redis"
    /\ verdict.failed /\ verdict.allowed
    /\ verdict.remaining = rule[verdict.key].requests
    /\ verdict.now \in zset(verdict.key)
    /\ Cardinality(zset(verdict.key)) > rule[verdict.key].requests

----------------------------------------------------------------------------
(* Properties of the standalone limiter under SpecMemLimit. *)

\* the calls and the sweep that are between taking the lock and releasing it
InCriticalSection ==
    {w \in Procs : lim[w].pc \in {"prune", "count", "append"}}
        \cup (IF cleanup.pc = "sweep" THEN {Sweeper} ELSE {})

----------------------------------------------------------------------------
(* Properties of the two limiters side by side, under SpecTwin. *)

\* the step in which the standalone limiter answers the call of worker w
\* that the distributed limiter has answered
TwinAnswers(w) == lim[w].variant = "memory" /\ LimIdle(w)' /\ Owed

\* C21: for the calls made one at a time while Redis answers, with the
\* same keys, limits, windows and call times, the standalone limiter
\* returns on every call the (allowed, remaining, reset) that the
\* distributed limiter returns.
C21_Interchangeable ==
    [][\A w \in Procs :
           TwinAnswers(w) =>
               /\ verdict'.allowed = verdict.allowed
               /\ verdict'.remaining = verdict.remaining
               /\ verdict'.reset = verdict.reset]_vars

----------------------------------------------------------------------------
(* Properties of the middleware under SpecGate. *)

\* the step in which a request reaches its endpoint
Reaches == left'.calls < left.calls /\ lim' = lim

----------------------------------------------------------------------------
(* Properties of create_short_url under SpecInput. *)

\* C23: a create whose long URL has its hash in the Redis dedup cache is
\* answered on arrival with the cached code and the long URL of the
\* request: no round trip to Cassandra begins, and no row, counter or key
\* changes.
C23_DedupHitFrame ==
    [][\A u \in URLs :
           (/\ left'.calls < left.calls
            /\ Arriving.op = "create"
            /\ Arriving.url = u
            /\ ~Malformed(Arriving)
            /\ cache_get_dedup(get_url_hash(u)) # NoCode)
           => /\ pc' = pc
              /\ out'.hit
              /\ out'.ret = Response(200, cache_get_dedup(get_url_hash(u)), u, 0)
              /\ UNCHANGED <<store, cachev, clickv>>]_vars

\* a create that carries an alias was answered from the dedup cache with
\* the code of an earlier create of its long URL
C23_Witness ==
    /\ out.req.op = "create"
    /\ out.hit
    /\ out.ret.status = 200
    /\ out.req.alias # NoAlias
    /\ out.ret.short_code # out.req.alias
    /\ out.ret.long_url = out.req.url
    /\ cacheDedup[get_url_hash(out.req.url)].val = out.ret.short_code

\* handler p takes a step of its call
Steps(p) == pc'[p] # pc[p] \/ loc'[p] # loc[p]

\* C24: a create checks the existence of a code in the round trips "check"
\* and "recheck" only, once each, and draws a second code only between
\* the two, for a generated code that is taken; it fails with 409 when its
\* alias is taken and with 500 ("Failed to generate unique short code")
\* when the second code is taken too, and a create that fails so has
\* changed no row and no key, in these round trips or before them.
C24_BoundedGeneration ==
    [][\A p \in Procs :
           /\ (pc'[p] = "check" /\ Steps(p)) => pc[p] = "get_dedup"
           /\ (pc'[p] = "recheck" /\ Steps(p))
              => /\ pc[p] = "check"
                 /\ req[p].alias = NoAlias
                 /\ get_url(loc[p].short_code)
           /\ (pc[p] \in {"get_dedup", "check", "recheck"} /\ Steps(p))
              => UNCHANGED <<store, cachev>>
           /\ (pc[p] = "check" /\ Steps(p))
              => IF ~get_url(loc[p].short_code) THEN pc'[p] = "insert_url"
                 ELSE IF req[p].alias = NoAlias THEN pc'[p] = "recheck"
                 ELSE Idle(p)' /\ out'.ret = Response(409, NoCode, NoUrl, 0)
           /\ (pc[p] = "recheck" /\ Steps(p))
              => IF ~get_url(loc[p].short_code) THEN pc'[p] = "insert_url"
                 ELSE Idle(p)' /\ out'.ret = Response(500, NoCode, NoUrl, 0)
           /\ (Returns(p) /\ req[p].op = "create" /\ out'.ret.status \in {409, 500})
              => pc[p] = (IF out'.ret.status = 409 THEN "check" ELSE "recheck")]_vars

\* a create has failed with 500: the code it generated and the code it
\* drew next both had rows; its long URL has no dedup row and no key
C24_Witness ==
    /\ out.req.op = "create"
    /\ out.ret.status = 500
    /\ out.ret.detail = "Failed to generate unique short code"
    /\ urls # Empty
    /\ get_dedup(get_url_hash(out.req.url)) = NoCode
    /\ get_url_hash(out.req.url) \notin DOMAIN cacheDedup
    /\ \A p \in Procs : Idle(p)

----------------------------------------------------------------------------
(* Properties of the racing creates under SpecRace. *)

\* the codes the creates have returned for long URL u
ReturnedFor(u) == {c \in Codes : u \in minted[c]}

\* C25: under any interleaving of the creates of a new long URL, every
\* code a create has returned has a row with that long URL, the url: key
\* of the code, if there is one, carries it, and a resolve of the code
\* returns it; once the creates have all returned, the dedup row of the
\* long URL points to one of the codes they returned.
C25_SameUrlRace ==
    /\ \A c \in ReturnedFor(NewURL) :
           /\ get_url(c) /\ urls[c].long_url = NewURL
           /\ c \in DOMAIN cacheUrl => cacheUrl[c].val = NewURL
    /\ (out.req.op = "resolve" /\ NewURL \in out.snap.urls)
       => out.ret.status = 200 /\ out.ret.long_url = NewURL
    /\ ((\A p \in Procs : Idle(p)) /\ ReturnedFor(NewURL) # {})
       => get_dedup(get_url_hash(NewURL)) \in ReturnedFor(NewURL)

\* two creates of the long URL have returned different codes, and a
\* resolve of the code the dedup row does not point to has returned the
\* long URL
C25_Witness ==
    /\ \A p \in Procs : Idle(p)
    /\ Cardinality(ReturnedFor(NewURL)) = 2
    /\ out.req.op = "resolve"
    /\ out.req.code \in ReturnedFor(NewURL)
    /\ out.req.code # get_dedup(get_url_hash(NewURL))
    /\ out.ret.long_url = NewURL

----------------------------------------------------------------------------
(* Properties of the cancelled creates under SpecCancel. *)

\* the codes of which a create has written the row and the dedup row and
\* was cancelled before it returned: no create has returned the code and
\* none is about to
Orphans ==
    {c \in written : /\ minted[c] = {}
                     /\ \A p \in Procs : pc[p] \notin {"set_url", "set_dedup"}}

\* the step cancels a handler, which returns nothing
Cancelled == \E p \in Procs : cancel(p)

\* C26: the rows of a create that was cancelled after its two writes stay:
\* the dedup row of the long URL points to the code; the next resolve of
\* the code returns the long URL and leaves it in Redis under the url: key
\* (when Redis answers), and the next create of the long URL returns the
\* code and leaves it in Redis under the dedup: key.
C26_CancelledCreateRepaired ==
    /\ [](\A c \in Orphans :
              get_url(c) /\ get_dedup(get_url_hash(urls[c].long_url)) = c)
    /\ [][\A c \in Orphans :
              /\ (ResolveEnds(c) /\ ~Cancelled)
                 => /\ out'.ret = Response(200, c, urls[c].long_url, 0)
                    /\ cacheUp => /\ c \in DOMAIN cacheUrl'
                                  /\ cacheUrl'[c].val = urls[c].long_url
              /\ (CreateEnds /\ ~Cancelled /\ out'.req.url = urls[c].long_url)
                 => /\ out'.ret = Response(200, c, urls[c].long_url, 0)
                    /\ cacheUp
                       => /\ get_url_hash(urls[c].long_url) \in DOMAIN cacheDedup'
                          /\ cacheDedup'[get_url_hash(urls[c].long_url)].val = c]_vars

\* a create was cancelled between its writes to Cassandra and its writes
\* to Redis, and the next create of the long URL has returned the code of
\* the rows and cached the dedup row: Redis answers and has no url: key
\* for the code
C26_Witness ==
    /\ out.req.op = "create"
    /\ out.ret.status = 200
    /\ ~out.hit
    /\ out.ret.short_code \in written
    /\ cacheUp
    /\ out.ret.short_code \notin DOMAIN cacheUrl
    /\ get_url_hash(out.req.url) \in DOMAIN cacheDedup
    /\ cacheDedup[get_url_hash(out.req.url)].val = out.ret.short_code
    /\ \A p \in Procs : Idle(p)

\* the step in which the cluster reports what became of an increment of c
Settles(c) == inflight'[c] < inflight[c]

\* C27: a resolve that returns a long URL, from Redis or from Cassandra,
\* returns while the increment it dispatched is still in flight and has
\* touched no counter; and when the increment later is applied or fails, no
\* response and no handler changes: a failed one is counted as logged and
\* leaves the tables as they are.
C27_IncrementNotAwaited ==
    [][\A c \in Codes :
          /\ (ResolveEnds(c) /\ served'[c] > served[c])
             => /\ out'.ret.status = 200
                /\ out'.ret.long_url # NoUrl
                /\ inflight'[c] = inflight[c] + 1
                /\ url_clicks' = url_clicks
                /\ lost' = lost
          /\ Settles(c)
             => /\ UNCHANGED <<out, pc, req, loc, cachev, urls, url_dedup>>
                /\ \/ url_clicks' = increment_clicks(c) /\ lost' = lost
                   \/ /\ url_clicks' = url_clicks
                      /\ lost' = [lost EXCEPT ![c] = @ + 1]]_vars

\* a resolve answered from Cassandra has returned the long URL of a code
\* of which one increment was applied and another failed
C27_Witness ==
    /\ out.req.op = "resolve"
    /\ out.ret.status = 200
    /\ ~out.hit
    /\ lost[out.req.code] > 0
    /\ get_clicks(out.req.code) > 0

\* the step is one of a get_stats call: its arrival or its second read
StatsStep ==
    \/ left'.calls < left.calls /\ Arriving.op = "stats"
    \/ \E p \in Procs : req[p].op = "stats" /\ pc'[p] # pc[p]

\* C28: no step of get_stats changes a Redis key, a Cassandra row or a
\* dispatched increment; a get_stats of a code with a row returns the row's
\* long URL and the click count url_clicks holds when it returns, 0 without
\* a counter row, whatever Redis holds for the code; one of a code without
\* a row fails with 404.
C28_StatsReadThrough ==
    [][/\ StatsStep => UNCHANGED <<store, cachev, clickv, hist>>
       /\ \A c \in Codes :
              StatsEnds(c)
              => IF get_url(c)
                 THEN out'.ret = Response(200, c, urls[c].long_url,
                                          IF c \in DOMAIN url_clicks
                                          THEN url_clicks[c] ELSE 0)
                 ELSE out'.ret = Response(404, c, NoUrl, 0)]_vars

\* a get_stats has returned 0 clicks for a code that has no counter row,
\* while Redis held the code's url: key and a resolve had returned its URL
C28_Witness ==
    /\ out.req.op = "stats"
    /\ out.ret.status = 200
    /\ out.ret.clicks = 0
    /\ out.req.code \notin DOMAIN url_clicks
    /\ cacheUp
    /\ out.req.code \in DOMAIN cacheUrl
    /\ served[out.req.code] > 0

\* the step in which the ZREM of the rejected call of w is run by Redis
Zrems(w) ==
    /\ lim[w].variant = "redis"
    /\ lim[w].pc = "zrem"
    /\ lim'[w].pc = "idle"
    /\ cacheUp

\* C29: the ZREM of a rejected call of the distributed limiter takes out of
\* the key's sorted set the entry the call added and no other: every
\* timestamp an admitted call added, and that the set held before the ZREM,
\* is in the set after it, and the rejected call is returned as rejected.
C29_RejectedRemovesOwnEntry ==
    [][\A w \in Procs, k \in LimitKeys :
          (Zrems(w) /\ lim[w].key = k)
          => /\ ~verdict'.allowed
             /\ zset(k)' \subseteq zset(k)
             /\ \A t \in DOMAIN admitted[k] : t \in zset(k) => t \in zset(k)']_vars

\* the step is one of an is_allowed call on key k: its arrival or one of
\* its round trips
CallStep(k) ==
    \E w \in Procs : /\ lim'[w].pc # lim[w].pc
                     /\ lim[w].key = k \/ lim'[w].key = k

\* C30: the categories of a client have keys of their own, and no step of
\* an is_allowed call on a key, of either limiter, changes what the limiter
\* holds for another key: its list of timestamps, its sorted set and the
\* expiry of the set stay as they were.
C30_KeysIndependent ==
    /\ [](\A a, b \in {"create", "stats", "resolve"} :
              a # b => limit_key(a) # limit_key(b))
    /\ [][\A k1 \in LimitKeys : \A k2 \in LimitKeys \ {k1} :
              (CallStep(k1) /\ ~CallStep(k2))
              => /\ timestamps(k2)' = timestamps(k2)
                 /\ (k2 \in DOMAIN requests)' = (k2 \in DOMAIN requests)
                 /\ zset(k2)' = zset(k2)
                 /\ (k2 \in DOMAIN ratelimit)' = (k2 \in DOMAIN ratelimit)
                 /\ k2 \in DOMAIN ratelimit => ratelimit'[k2] = ratelimit[k2]]_vars

\* one key's window is full in the standalone limiter, and a call on
\* another key has just been allowed with all but its own slot remaining
C30_Witness ==
    \E k1 \in LimitKeys :
        /\ Len(timestamps(k1)) = rule[k1].requests
        /\ verdict.variant = "memory"
        /\ verdict.key \in LimitKeys \ {k1}
        /\ verdict.allowed
        /\ verdict.remaining = rule[verdict.key].requests - 1
        /\ rule[verdict.key].requests > 1

----------------------------------------------------------------------------
(* Properties of the cleanup loop under SpecSweep. *)

\* C31: a sweep that raises leaves the loop running: the error is logged,
\* the lock is released, and the loop ends only by a cancellation in one of
\* its sleeps; after a sweep has raised, a later sweep is run unless the
\* loop is cancelled; and the is_allowed calls return, each with a verdict
\* on its count, whatever the sweeps do.
C31_SweepSurvives ==
    /\ [](cleanup.pc # "sweep" => lock # Sweeper)
    /\ [][cleanup.pc = "sweep" /\ cleanup'.pc = "backoff" => cleanup'.logged]_vars
    /\ [][cleanup'.pc = "done" => cleanup.pc \in {"sleep", "backoff", "done"}]_vars
    /\ (cleanup.pc = "backoff") ~> (cleanup.pc \in {"sweep", "done"})
    /\ \A w \in Procs : (lim[w].pc # "idle") ~> (lim[w].pc = "idle")
    /\ [](~waved)

\* a sweep has raised and a later sweep has the lock, while a call waits
\* for it
C31_Witness ==
    /\ cleanup.logged
    /\ cleanup.pc = "sweep"
    /\ \E w \in Procs : lim[w].pc = "lock"

\* C32: one InMemoryRateLimiter starts one cleanup task at most, however
\* its first calls interleave and whether or not the task has ended since:
\* none before the first call, one from the first call on.
C32_OneCleanupTask ==
    /\ cleanup.tasks <= 1
    /\ cleanup.tasks = 0
       <=> (verdict = NoVerdict /\ \A w \in Procs : LimIdle(w))

\* two first calls are in flight together, neither has the lock yet, and
\* one cleanup task has been started
C32_Witness ==
    /\ verdict = NoVerdict
    /\ \A w \in Procs : lim[w].pc = "lock"
    /\ cleanup.tasks = 1

----------------------------------------------------------------------------
(* Properties of the start of the application under SpecBoot. *)

\* C33: once the application serves, the middleware has the distributed
\* limiter if the cache.connect() of the start has kept its client, and
\* the standalone limiter only if it has not; no call is answered by the
\* standalone limiter of an application whose cache is connected.
C33_VariantSelection ==
    /\ boot.pc = "serving"
       => /\ boot.client => boot.limiter = "redis"
          /\ boot.limiter = "memory" => ~boot.client
    /\ verdict.variant = "memory" => ~boot.client

----------------------------------------------------------------------------
(* Properties of the reset_time under SpecRetry. *)

\* the step in which the call of w returns, the call finished last having
\* been a call of the same limiter on the same key that was rejected with
\* a reset_time that had passed when the call of w read the clock
Retried(w) ==
    /\ lim[w].pc # "idle"
    /\ lim'[w].pc = "idle"
    /\ verdict.variant = lim[w].variant
    /\ verdict.key = lim[w].key
    /\ ~verdict.allowed
    /\ lim[w].now >= verdict.now + verdict.reset * TicksPerSecond

\* C34: a rejected call of either limiter is given a reset_time between 1
\* and the window, and the next call on its key, made when the reset_time
\* has passed, is allowed.
C34_ResetSuffices ==
    /\ []((verdict.variant # "none" /\ ~verdict.allowed)
             => /\ verdict.reset >= 1
                /\ verdict.reset <= rule[verdict.key].window)
    /\ [][\A w \in Procs : Retried(w) => verdict'.allowed]_vars

----------------------------------------------------------------------------
(* Properties of a create and the resolve that follows it, under           *)
(* SpecSteady.                                                             *)

\* get_long_url lines 144-165: a resolve of short code c issued now would
\* return a long URL: Redis has url:<c>, or Cassandra has the row of c and
\* the row has not expired
Resolvable(c) ==
    \/ cache_get_url(c) # NoUrl
    \/ get_url(c) /\ ~IsExpired(c)

\* C35: when a create returns a short code, whether it wrote the row or
\* found the code in the dedup cache or the dedup table, a resolve of the
\* code issued at that moment fails neither with 404 nor with 410.
C35_ReturnedCodeResolves ==
    [][\A c \in Codes :
          (CreateEnds /\ out'.ret.status = 200 /\ out'.ret.short_code = c)
          => Resolvable(c)']_vars

\* the create of handler p carries a custom alias for a long URL that the
\* dedup cache or the dedup table mapped to a code when it was issued
AliasForMapped(p) ==
    /\ req[p].op = "create"
    /\ req[p].alias # NoAlias
    /\ snap[p].mapped # NoCode

\* C36: a create with a custom alias for a long URL that has a dedup
\* mapping never gets to the look-up of the alias or to a write: it goes
\* from the dedup cache to the dedup table at most, writes no row, and
\* returns the mapped code, whether or not the alias is taken.
C36_DedupBeforeAlias ==
    /\ [](\A p \in Procs : AliasForMapped(p) => pc[p] \in {"get_dedup", "repair"})
    /\ [][\A p \in Procs :
              (AliasForMapped(p) /\ pc'[p] # pc[p])
              => /\ UNCHANGED <<urls, url_dedup>>
                 /\ Returns(p)
                    => out'.ret = Response(200, snap[p].mapped, req[p].url, 0)]_vars
    /\ [][(/\ Answered
           /\ out'.req.op = "create"
           /\ out'.req.alias # NoAlias
           /\ out'.snap.mapped # NoCode)
          => /\ UNCHANGED <<urls, url_dedup>>
             /\ out'.ret = Response(200, out'.snap.mapped, out'.req.url, 0)]_vars

\* a create with an alias that is taken has returned, from the dedup table,
\* the code its long URL was mapped to, which is not the alias
C36_Witness ==
    /\ out.req.op = "create"
    /\ out.req.alias # NoAlias
    /\ out.snap.taken
    /\ ~out.hit
    /\ out.ret.status = 200
    /\ out.ret.short_code = out.snap.mapped
    /\ out.ret.short_code # out.req.alias

----------------------------------------------------------------------------
(* Properties of the sweep under SpecLongWindow. *)

\* the timestamps in a list
Stamps(l) == {l[i] : i \in 1 .. Len(l)}

\* C37: a sweep of the cleanup loop takes no timestamp out of a list that
\* is still inside the window of the key, and so the calls made one after
\* the other return what they would without the sweeps: allowed while
\* fewer than limit calls were admitted in the window that trails them,
\* with the rest of the limit remaining, and rejected otherwise.
C37_SweepsKeepWindow ==
    /\ [][\A k \in LimitKeys :
              (cleanup.pc = "sweep" /\ cleanup'.pc = "sleep")
              => \A ts \in Stamps(timestamps(k)) :
                     ts > clock - WindowTicks(k) => ts \in Stamps(timestamps(k))']_vars
    /\ []((verdict.variant = "memory" /\ verdict.solo)
             => /\ verdict.allowed <=> verdict.seen < rule[verdict.key].requests
                /\ verdict.allowed
                   => verdict.remaining = rule[verdict.key].requests - verdict.seen - 1)

----------------------------------------------------------------------------
(* Properties of the remaining quota under SpecKeys. *)

\* C38: a call of either limiter that is allowed returns as remaining the
\* limit less the calls admitted on its key in the window that trails it,
\* itself among them, which is between 0 and limit - 1; a call that is
\* rejected returns 0 remaining; however the calls interleave.
C38_RemainingExact ==
    [][\A w \in Procs, k \in LimitKeys :
          (lim[w].pc # "idle" /\ lim'[w].pc = "idle" /\ lim[w].key = k)
          => IF verdict'.allowed
             THEN /\ verdict'.remaining
                       = rule[k].requests - Total(admitted'[k], Trailing(k, lim[w].now))
                  /\ verdict'.remaining >= 0
                  /\ verdict'.remaining <= rule[k].requests - 1
             ELSE verdict'.remaining = 0]_vars

----------------------------------------------------------------------------
(* Properties of the generated codes under SpecCodec. *)

\* C39: the text of a code made by generate_short_code (4 digest bytes and
\* 2 random bytes) or by the fallback (6 random bytes) has 8 characters,
\* each a letter, a digit, "-" or "_", and passes the check of the format
\* that resolve and stats make.
C39_GeneratedCodesValid ==
    drawn.by # "none"
    => /\ Len(drawn.bytes) = 6
       /\ Len(drawn.text) = 8
       /\ \A i \in 1 .. Len(drawn.text) : drawn.text[i] \in Ascii \cup {"-", "_"}
       /\ valid_text(drawn.text)

\* generate_short_code has made a code with a letter, a digit, a hyphen
\* and an underscore in it
C39_Witness ==
    /\ drawn.by = "primary"
    /\ \E i, j, k, l \in 1 .. Len(drawn.text) :
           /\ drawn.text[i] = "-"
           /\ drawn.text[j] = "_"
           /\ drawn.text[k] \in {B64[n] : n \in 53 .. 62}
           /\ drawn.text[l] \in {B64[n] : n \in 1 .. 52}

=============================================================================
